---- MODULE Spec2Model ----
(***************************************************************************)
(* ExamTracker: the PDF acquisition pipeline parsePdf of                   *)
(* src/src/utils/storage/pdfServer.ts and the detectors it drives          *)
(* (extractQuestionsFromLines, extractQuestionsFromText2 in the same file, *)
(* detectQuestionsFromPages of the question detector).                     *)
(*                                                                         *)
(* Representation.  A string that holds a text is a sequence of its lines  *)
(* (the string split at "\n"); a line is a TLA+ string.  A regular         *)
(* expression is evaluated on the line catalogue: a table row holds what   *)
(* the source's pattern returns on that line.  A missing number (null,     *)
(* undefined) is -1, a missing letter is "", a missing main is 0.          *)
(***************************************************************************)
EXTENDS Integers, Sequences, FiniteSets, TLC

(* ---- program constants ---- *)
QuickOcrPages == 20
DeepOcrPages == 100
LayoutMaxPages == 10
MaxTokens == 150
MaxCombinedMains == 80
TOP_K == 3
BOTTOM_K == 3
yTol == 3
gapX == 3
yTolerancePx == 3
gapXThresholdPx == 4
leftMarginPercentile == 25
headerFooterPercent == 7
scoreThreshold == 2
contextWindow == 120
MAX_SCORE == 10
AheadWindow == 120
BehindWindow == 50

(* ---- bounds of the model ---- *)
MaxTextPages == 2
MaxOcrChunks == 2
MaxCtxNull == 1
MaxFailPage == 2

(* ---- generic helpers ---- *)
Min(a, b) == IF a <= b THEN a ELSE b
Max(a, b) == IF a >= b THEN a ELSE b
Range(s) == {s[k] : k \in DOMAIN s}
(* `const v = value; ... v ...`: the value is computed, then named and used *)
Let(value, Body(_)) == CASE value = value -> Body(value)


(* `if (!m.has(k)) m.set(k, v)` on a Map held as a function *)
SetIfAbsent(m, k, v) == IF k \in DOMAIN m THEN m ELSE m @@ (k :> v)
GetOr(m, k, d) == IF k \in DOMAIN m THEN m[k] ELSE d

(* `${n}${L}`: the token key of main n and sub-letter L ("" for the bare main) *)
Tok(n, L) == ToString(n) \o L

Alphabet ==
    <<"a", "b", "c", "d", "e", "f", "g", "h", "i", "j", "k", "l", "m",
      "n", "o", "p", "q", "r", "s", "t", "u", "v", "w", "x", "y", "z">>
CharCode(L) == CHOOSE k \in 1..26 : Alphabet[k] = L

letterRange(a, b) ==
    LET s == CharCode(a)
        e == CharCode(b)
        lo == Max(1, Min(s, e))
        hi == Min(26, Max(s, e))
    IN  [k \in 1..(hi - lo + 1) |-> Alphabet[lo + k - 1]]

(* ---- what the points patterns find in one piece of a string ---- *)
NoPts == <<-1, -1, -1>>
Seg(p, each, tail, var, list, len) ==
    [p |-> p, each |-> each, tail |-> tail, var |-> var, list |-> list,
     len |-> len]
NoSeg == Seg(NoPts, <<>>, FALSE, FALSE, <<>>, 0)

(* parsePts over a string given as its pieces in order: ps[j][k] is what
   pattern k captures in piece j.  The patterns are tried in order and each
   takes its leftmost match. *)
PatternValue(ps, k) ==
    IF \E j \in 1..Len(ps) : ps[j][k] # -1
    THEN ps[CHOOSE j \in 1..Len(ps) :
                /\ ps[j][k] # -1
                /\ \A h \in 1..(j - 1) : ps[h][k] = -1][k]
    ELSE -1
parsePts(ps) ==
    IF PatternValue(ps, 1) # -1 THEN PatternValue(ps, 1)
    ELSE IF PatternValue(ps, 2) # -1 THEN PatternValue(ps, 2)
    ELSE PatternValue(ps, 3)

(* parsePtsList(rem + ' ' + next): the leftmost "(n1+n2+...)" list *)
parsePtsList(rem, next) == IF rem.list # <<>> THEN rem.list ELSE next.list

(* eachRe on rem + ' ' + next: the leftmost "deluppgifter a-d" that has
   "vardera"/"var" after it; <<>> when there is none *)
eachRe(rem, next) ==
    IF rem.each # <<>>
    THEN IF rem.tail \/ next.var THEN rem.each ELSE <<>>
    ELSE IF next.each # <<>> /\ next.tail THEN next.each ELSE <<>>

(* txt.replace(/\s+/g, ' ').trim() on the strings the page samples compose;
   a string that is not listed has no white space to collapse or trim *)
Clean(s) ==
    CASE s = "a) Beskriv " -> "a) Beskriv"
      [] s = " a) Beskriv " -> "a) Beskriv"
      [] s = " Se 3 nedan a) b)" -> "Se 3 nedan a) b)"
      [] s = " Sektion 2: Analys" -> "Sektion 2: Analys"
      [] s = " " -> ""
      [] s = "Uppgift 2 " -> "Uppgift 2"
      [] s = "Uppgift 2  " -> "Uppgift 2"
      [] s = "  Uppgift 2" -> "Uppgift 2"
      [] s = " Uppgift 2" -> "Uppgift 2"
      [] s = "  " -> ""
      [] s = "   " -> ""
      [] s = "Uppgift 2Uppgift 2 " -> "Uppgift 2Uppgift 2"
      [] s = "Uppgift 2Uppgift 2  " -> "Uppgift 2Uppgift 2"
      [] s = "Uppgift 2  Uppgift 2" -> "Uppgift 2 Uppgift 2"
      [] s = "Uppgift 2 Uppgift 2 " -> "Uppgift 2 Uppgift 2"
      [] s = "Uppgift 2   " -> "Uppgift 2"
      [] s = "  Uppgift 2Uppgift 2" -> "Uppgift 2Uppgift 2"
      [] s = " Uppgift 2 Uppgift 2" -> "Uppgift 2 Uppgift 2"
      [] s = "   Uppgift 2" -> "Uppgift 2"
      [] s = "  Uppgift 2 " -> "Uppgift 2"
      [] s = " Uppgift 2Uppgift 2" -> "Uppgift 2Uppgift 2"
      [] s = " Uppgift 2 " -> "Uppgift 2"
      [] s = " Uppgift 2  " -> "Uppgift 2"
      [] s = "    " -> ""
      [] s = "Uppgift 2Uppgift 2Uppgift 2 " -> "Uppgift 2Uppgift 2Uppgift 2"
      [] s = "Uppgift 2Uppgift 2Uppgift 2  " -> "Uppgift 2Uppgift 2Uppgift 2"
      [] s = "Uppgift 2Uppgift 2  Uppgift 2" -> "Uppgift 2Uppgift 2 Uppgift 2"
      [] s = "Uppgift 2Uppgift 2 Uppgift 2 " -> "Uppgift 2Uppgift 2 Uppgift 2"
      [] s = "Uppgift 2Uppgift 2   " -> "Uppgift 2Uppgift 2"
      [] s = "Uppgift 2  Uppgift 2Uppgift 2" -> "Uppgift 2 Uppgift 2Uppgift 2"
      [] s = "Uppgift 2 Uppgift 2Uppgift 2 " -> "Uppgift 2 Uppgift 2Uppgift 2"
      [] s = "Uppgift 2   Uppgift 2" -> "Uppgift 2 Uppgift 2"
      [] s = "Uppgift 2  Uppgift 2 " -> "Uppgift 2 Uppgift 2"
      [] s = "Uppgift 2 Uppgift 2  " -> "Uppgift 2 Uppgift 2"
      [] s = "Uppgift 2    " -> "Uppgift 2"
      [] s = "  Uppgift 2Uppgift 2Uppgift 2" -> "Uppgift 2Uppgift 2Uppgift 2"
      [] s = " Uppgift 2 Uppgift 2Uppgift 2" -> "Uppgift 2 Uppgift 2Uppgift 2"
      [] s = "   Uppgift 2Uppgift 2" -> "Uppgift 2Uppgift 2"
      [] s = "  Uppgift 2Uppgift 2 " -> "Uppgift 2Uppgift 2"
      [] s = " Uppgift 2Uppgift 2 Uppgift 2" -> "Uppgift 2Uppgift 2 Uppgift 2"
      [] s = " Uppgift 2  Uppgift 2" -> "Uppgift 2 Uppgift 2"
      [] s = " Uppgift 2 Uppgift 2 " -> "Uppgift 2 Uppgift 2"
      [] s = "  Uppgift 2 Uppgift 2" -> "Uppgift 2 Uppgift 2"
      [] s = "    Uppgift 2" -> "Uppgift 2"
      [] s = "   Uppgift 2 " -> "Uppgift 2"
      [] s = "  Uppgift 2  " -> "Uppgift 2"
      [] s = " Uppgift 2Uppgift 2Uppgift 2" -> "Uppgift 2Uppgift 2Uppgift 2"
      [] s = " Uppgift 2Uppgift 2 " -> "Uppgift 2Uppgift 2"
      [] s = " Uppgift 2Uppgift 2  " -> "Uppgift 2Uppgift 2"
      [] s = " Uppgift 2   " -> "Uppgift 2"
      [] s = "     " -> ""
      [] OTHER -> s

(* A line that matches none of the patterns. *)
NoLineRe ==
    [main |-> 0, rem |-> NoSeg, letter |-> "", lrem |-> NoSeg, seg |-> NoSeg,
     comb |-> <<>>]

(* mainLineRe, letterLineRe, combinedRe, parsePts, parsePtsList and eachRe of
   extractQuestionsFromLines on each catalogue line (diacritics normalised). *)
LineRe(s) ==
    CASE s = "Uppgift 1 (5p)" ->
        [NoLineRe EXCEPT
           !.main = 1,
           !.rem = Seg(<<5, 5, -1>>, <<>>, FALSE, FALSE, <<>>, 5),
           !.seg = Seg(<<5, 5, -1>>, <<>>, FALSE, FALSE, <<>>, 14),
           !.comb = <<[n |-> 5, L |-> "p", pts |-> -1]>>]
      [] s = "a) Beskriv" ->
        [NoLineRe EXCEPT
           !.letter = "a", !.lrem = Seg(NoPts, <<>>, FALSE, FALSE, <<>>, 8),
           !.seg = Seg(NoPts, <<>>, FALSE, FALSE, <<>>, 10)]
      [] s = "Tentamen i Algebra" ->
        [NoLineRe EXCEPT
           !.seg = Seg(NoPts, <<>>, FALSE, FALSE, <<>>, 18)]
      [] s = "Se 3 nedan a) b)" ->
        [NoLineRe EXCEPT
           !.seg = Seg(NoPts, <<>>, FALSE, FALSE, <<>>, 16)]
      [] s = "Sektion 2: Analys" ->
        [NoLineRe EXCEPT
           !.seg = Seg(NoPts, <<>>, FALSE, FALSE, <<>>, 17)]
      [] s = "lorem ipsum" ->
        [NoLineRe EXCEPT
           !.seg = Seg(NoPts, <<>>, FALSE, FALSE, <<>>, 11)]
      [] s = "Uppgift 2" ->
        [NoLineRe EXCEPT
           !.main = 2, !.seg = Seg(NoPts, <<>>, FALSE, FALSE, <<>>, 9)]
      [] s = "20p" ->
        [NoLineRe EXCEPT
           !.seg = Seg(<<-1, 20, -1>>, <<>>, FALSE, FALSE, <<>>, 3)]
      [] s = "Sida 3 av 10" ->
        [NoLineRe EXCEPT
           !.seg = Seg(NoPts, <<>>, FALSE, FALSE, <<>>, 12)]
      [] s = "2024-05-21" ->
        [NoLineRe EXCEPT
           !.seg = Seg(NoPts, <<>>, FALSE, FALSE, <<>>, 10)]
      [] s = "1. Introduction" ->
        [NoLineRe EXCEPT
           !.main = 1, !.rem = Seg(NoPts, <<>>, FALSE, FALSE, <<>>, 13),
           !.seg = Seg(NoPts, <<>>, FALSE, FALSE, <<>>, 15)]
      [] s = "2a) derive..." ->
        [NoLineRe EXCEPT
           !.seg = Seg(NoPts, <<>>, FALSE, FALSE, <<>>, 13),
           !.comb = <<[n |-> 2, L |-> "a", pts |-> -1]>>]
      [] s = "2b) prove..." ->
        [NoLineRe EXCEPT
           !.seg = Seg(NoPts, <<>>, FALSE, FALSE, <<>>, 12),
           !.comb = <<[n |-> 2, L |-> "b", pts |-> -1]>>]
      [] s = "2P) Visa" ->
        [NoLineRe EXCEPT
           !.seg = Seg(<<-1, 2, -1>>, <<>>, FALSE, FALSE, <<>>, 8),
           !.comb = <<[n |-> 2, L |-> "p", pts |-> -1]>>]
      [] s = "Uppgift 4 (3+2+1)p" ->
        [NoLineRe EXCEPT
           !.main = 4,
           !.rem = Seg(NoPts, <<>>, FALSE, FALSE, <<3, 2, 1>>, 9),
           !.seg = Seg(NoPts, <<>>, FALSE, FALSE, <<3, 2, 1>>, 18)]
      [] s = "Uppgift 3 (5p)" ->
        [NoLineRe EXCEPT
           !.main = 3,
           !.rem = Seg(<<5, 5, -1>>, <<>>, FALSE, FALSE, <<>>, 5),
           !.seg = Seg(<<5, 5, -1>>, <<>>, FALSE, FALSE, <<>>, 14),
           !.comb = <<[n |-> 5, L |-> "p", pts |-> -1]>>]
      [] s = "Uppgift 3 (7p)" ->
        [NoLineRe EXCEPT
           !.main = 3,
           !.rem = Seg(<<7, 7, -1>>, <<>>, FALSE, FALSE, <<>>, 5),
           !.seg = Seg(<<7, 7, -1>>, <<>>, FALSE, FALSE, <<>>, 14),
           !.comb = <<[n |-> 7, L |-> "p", pts |-> -1]>>]
      [] s = "a)" ->
        [NoLineRe EXCEPT
           !.letter = "a", !.seg = Seg(NoPts, <<>>, FALSE, FALSE, <<>>, 2)]
      [] s = "Deluppgifter a-c: 2p vardera" ->
        [NoLineRe EXCEPT
           !.seg = Seg(<<-1, 2, -1>>, <<"a", "c">>, TRUE, TRUE, <<>>, 28)]
      [] s = "Kurskod: SF1624" ->
        [NoLineRe EXCEPT
           !.seg = Seg(NoPts, <<>>, FALSE, FALSE, <<>>, 15)]
      [] s = "1. Deluppgifter a-z: 2p vardera" ->
        [NoLineRe EXCEPT
           !.main = 1,
           !.rem = Seg(<<-1, 2, -1>>, <<"a", "z">>, TRUE, TRUE, <<>>, 29),
           !.seg = Seg(<<-1, 2, -1>>, <<"a", "z">>, TRUE, TRUE, <<>>, 31)]
      [] s = "2. Deluppgifter a-z: 2p vardera" ->
        [NoLineRe EXCEPT
           !.main = 2,
           !.rem = Seg(<<-1, 2, -1>>, <<"a", "z">>, TRUE, TRUE, <<>>, 29),
           !.seg = Seg(<<-1, 2, -1>>, <<"a", "z">>, TRUE, TRUE, <<>>, 31)]
      [] s = "3. Deluppgifter a-z: 2p vardera" ->
        [NoLineRe EXCEPT
           !.main = 3,
           !.rem = Seg(<<-1, 2, -1>>, <<"a", "z">>, TRUE, TRUE, <<>>, 29),
           !.seg = Seg(<<-1, 2, -1>>, <<"a", "z">>, TRUE, TRUE, <<>>, 31)]
      [] s = "4. Deluppgifter a-z: 2p vardera" ->
        [NoLineRe EXCEPT
           !.main = 4,
           !.rem = Seg(<<-1, 2, -1>>, <<"a", "z">>, TRUE, TRUE, <<>>, 29),
           !.seg = Seg(<<-1, 2, -1>>, <<"a", "z">>, TRUE, TRUE, <<>>, 31)]
      [] s = "5. Deluppgifter a-z: 2p vardera" ->
        [NoLineRe EXCEPT
           !.main = 5,
           !.rem = Seg(<<-1, 2, -1>>, <<"a", "z">>, TRUE, TRUE, <<>>, 29),
           !.seg = Seg(<<-1, 2, -1>>, <<"a", "z">>, TRUE, TRUE, <<>>, 31)]
      [] s = "6. Deluppgifter a-z: 2p vardera" ->
        [NoLineRe EXCEPT
           !.main = 6,
           !.rem = Seg(<<-1, 2, -1>>, <<"a", "z">>, TRUE, TRUE, <<>>, 29),
           !.seg = Seg(<<-1, 2, -1>>, <<"a", "z">>, TRUE, TRUE, <<>>, 31)]
      [] s = "7. Deluppgifter a-z: 2p vardera" ->
        [NoLineRe EXCEPT
           !.main = 7,
           !.rem = Seg(<<-1, 2, -1>>, <<"a", "z">>, TRUE, TRUE, <<>>, 29),
           !.seg = Seg(<<-1, 2, -1>>, <<"a", "z">>, TRUE, TRUE, <<>>, 31)]
      [] OTHER -> NoLineRe

(* A line that matches none of the patterns. *)
NoText2Re ==
    [main |-> 0, rem |-> NoSeg, letter |-> "", lrem |-> NoSeg, seg |-> NoSeg,
     comb |-> <<>>, mains |-> <<>>, lets |-> <<>>, trail |-> 0,
     trailAt |-> 0, trailB |-> NoPts, lead |-> "", leadA |-> NoPts,
     leadLen |-> 0, pre |-> <<>>, suf |-> <<>>]

(* The regexes of extractQuestionsFromText2 on each catalogue line. *)
Text2Re(s) ==
    CASE s = "Uppgift 1 (5p)" ->
        [NoText2Re EXCEPT
           !.main = 1,
           !.rem = Seg(<<5, 5, -1>>, <<>>, FALSE, FALSE, <<>>, 5),
           !.seg = Seg(<<5, 5, -1>>, <<>>, FALSE, FALSE, <<>>, 14),
           !.comb = <<[n |-> 5, L |-> "p", a |-> NoPts, alen |-> 0, b |-> NoPts, at |-> 11]>>,
           !.mains = <<[n |-> 1, at |-> 0, atEnd |-> FALSE]>>,
           !.pre = <<[r |-> 13, p |-> <<-1, 5, -1>>]>>,
           !.suf = <<[r |-> 3, p |-> <<-1, 5, -1>>], [r |-> 4, p |-> <<5, 5, -1>>]>>]
      [] s = "a) Beskriv" ->
        [NoText2Re EXCEPT
           !.letter = "a", !.lrem = Seg(NoPts, <<>>, FALSE, FALSE, <<>>, 8),
           !.seg = Seg(NoPts, <<>>, FALSE, FALSE, <<>>, 10),
           !.lets = <<[L |-> "a", a |-> NoPts, alen |-> 8, b |-> NoPts, at |-> 0]>>,
           !.lead = "a", !.leadLen = 8]
      [] s = "Tentamen i Algebra" ->
        [NoText2Re EXCEPT
           !.seg = Seg(NoPts, <<>>, FALSE, FALSE, <<>>, 18)]
      [] s = "Se 3 nedan a) b)" ->
        [NoText2Re EXCEPT
           !.seg = Seg(NoPts, <<>>, FALSE, FALSE, <<>>, 16),
           !.mains = <<[n |-> 3, at |-> 2, atEnd |-> FALSE]>>,
           !.lets = <<[L |-> "a", a |-> NoPts, alen |-> 3, b |-> NoPts, at |-> 10], [L |-> "b", a |-> NoPts, alen |-> 0, b |-> NoPts, at |-> 13]>>]
      [] s = "Sektion 2: Analys" ->
        [NoText2Re EXCEPT
           !.seg = Seg(NoPts, <<>>, FALSE, FALSE, <<>>, 17),
           !.mains = <<[n |-> 2, at |-> 7, atEnd |-> FALSE]>>]
      [] s = "lorem ipsum" ->
        [NoText2Re EXCEPT
           !.seg = Seg(NoPts, <<>>, FALSE, FALSE, <<>>, 11)]
      [] s = "Uppgift 2" ->
        [NoText2Re EXCEPT
           !.main = 2, !.seg = Seg(NoPts, <<>>, FALSE, FALSE, <<>>, 9),
           !.mains = <<[n |-> 2, at |-> 0, atEnd |-> TRUE]>>, !.trail = 2]
      [] s = "20p" ->
        [NoText2Re EXCEPT
           !.seg = Seg(<<-1, 20, -1>>, <<>>, FALSE, FALSE, <<>>, 3),
           !.suf = <<[r |-> 2, p |-> <<-1, 0, -1>>]>>]
      [] s = "Sida 3 av 10" ->
        [NoText2Re EXCEPT
           !.seg = Seg(NoPts, <<>>, FALSE, FALSE, <<>>, 12),
           !.mains = <<[n |-> 3, at |-> 4, atEnd |-> FALSE], [n |-> 10, at |-> 9, atEnd |-> TRUE]>>,
           !.trail = 10, !.trailAt = 10]
      [] s = "2024-05-21" ->
        [NoText2Re EXCEPT
           !.seg = Seg(NoPts, <<>>, FALSE, FALSE, <<>>, 10),
           !.mains = <<[n |-> 21, at |-> 7, atEnd |-> TRUE]>>, !.trail = 21,
           !.trailAt = 8]
      [] s = "1. Introduction" ->
        [NoText2Re EXCEPT
           !.main = 1, !.rem = Seg(NoPts, <<>>, FALSE, FALSE, <<>>, 13),
           !.seg = Seg(NoPts, <<>>, FALSE, FALSE, <<>>, 15),
           !.mains = <<[n |-> 1, at |-> 0, atEnd |-> FALSE]>>]
      [] s = "2a) derive..." ->
        [NoText2Re EXCEPT
           !.seg = Seg(NoPts, <<>>, FALSE, FALSE, <<>>, 13),
           !.comb = <<[n |-> 2, L |-> "a", a |-> NoPts, alen |-> 10, b |-> NoPts, at |-> 0]>>]
      [] s = "2b) prove..." ->
        [NoText2Re EXCEPT
           !.seg = Seg(NoPts, <<>>, FALSE, FALSE, <<>>, 12),
           !.comb = <<[n |-> 2, L |-> "b", a |-> NoPts, alen |-> 9, b |-> NoPts, at |-> 0]>>]
      [] s = "2P) Visa" ->
        [NoText2Re EXCEPT
           !.seg = Seg(<<-1, 2, -1>>, <<>>, FALSE, FALSE, <<>>, 8),
           !.comb = <<[n |-> 2, L |-> "p", a |-> NoPts, alen |-> 5, b |-> NoPts, at |-> 0]>>,
           !.pre = <<[r |-> 2, p |-> <<-1, 2, -1>>]>>]
      [] s = "Uppgift 4 (3+2+1)p" ->
        [NoText2Re EXCEPT
           !.main = 4,
           !.rem = Seg(NoPts, <<>>, FALSE, FALSE, <<3, 2, 1>>, 9),
           !.seg = Seg(NoPts, <<>>, FALSE, FALSE, <<3, 2, 1>>, 18),
           !.mains = <<[n |-> 4, at |-> 0, atEnd |-> FALSE], [n |-> 1, at |-> 14, atEnd |-> FALSE]>>]
      [] s = "Uppgift 3 (5p)" ->
        [NoText2Re EXCEPT
           !.main = 3,
           !.rem = Seg(<<5, 5, -1>>, <<>>, FALSE, FALSE, <<>>, 5),
           !.seg = Seg(<<5, 5, -1>>, <<>>, FALSE, FALSE, <<>>, 14),
           !.comb = <<[n |-> 5, L |-> "p", a |-> NoPts, alen |-> 0, b |-> NoPts, at |-> 11]>>,
           !.mains = <<[n |-> 3, at |-> 0, atEnd |-> FALSE]>>,
           !.pre = <<[r |-> 13, p |-> <<-1, 5, -1>>]>>,
           !.suf = <<[r |-> 3, p |-> <<-1, 5, -1>>], [r |-> 4, p |-> <<5, 5, -1>>]>>]
      [] s = "Uppgift 3 (7p)" ->
        [NoText2Re EXCEPT
           !.main = 3,
           !.rem = Seg(<<7, 7, -1>>, <<>>, FALSE, FALSE, <<>>, 5),
           !.seg = Seg(<<7, 7, -1>>, <<>>, FALSE, FALSE, <<>>, 14),
           !.comb = <<[n |-> 7, L |-> "p", a |-> NoPts, alen |-> 0, b |-> NoPts, at |-> 11]>>,
           !.mains = <<[n |-> 3, at |-> 0, atEnd |-> FALSE]>>,
           !.pre = <<[r |-> 13, p |-> <<-1, 7, -1>>]>>,
           !.suf = <<[r |-> 3, p |-> <<-1, 7, -1>>], [r |-> 4, p |-> <<7, 7, -1>>]>>]
      [] s = "a)" ->
        [NoText2Re EXCEPT
           !.letter = "a", !.seg = Seg(NoPts, <<>>, FALSE, FALSE, <<>>, 2),
           !.lets = <<[L |-> "a", a |-> NoPts, alen |-> 0, b |-> NoPts, at |-> 0]>>,
           !.lead = "a"]
      [] s = "Deluppgifter a-c: 2p vardera" ->
        [NoText2Re EXCEPT
           !.seg = Seg(<<-1, 2, -1>>, <<"a", "c">>, TRUE, TRUE, <<>>, 28),
           !.lets = <<[L |-> "c", a |-> <<-1, 2, -1>>, alen |-> 11, b |-> NoPts, at |-> 14]>>,
           !.pre = <<[r |-> 20, p |-> <<-1, 2, -1>>]>>,
           !.suf = <<[r |-> 10, p |-> <<-1, 2, -1>>]>>]
      [] s = "Kurskod: SF1624" ->
        [NoText2Re EXCEPT
           !.seg = Seg(NoPts, <<>>, FALSE, FALSE, <<>>, 15), !.trail = 24,
           !.trailAt = 13]
      [] s = "1. Deluppgifter a-z: 2p vardera" ->
        [NoText2Re EXCEPT
           !.main = 1,
           !.rem = Seg(<<-1, 2, -1>>, <<"a", "z">>, TRUE, TRUE, <<>>, 29),
           !.seg = Seg(<<-1, 2, -1>>, <<"a", "z">>, TRUE, TRUE, <<>>, 31),
           !.mains = <<[n |-> 1, at |-> 0, atEnd |-> FALSE]>>,
           !.lets = <<[L |-> "z", a |-> <<-1, 2, -1>>, alen |-> 11, b |-> NoPts, at |-> 17]>>,
           !.pre = <<[r |-> 23, p |-> <<-1, 2, -1>>]>>,
           !.suf = <<[r |-> 10, p |-> <<-1, 2, -1>>]>>]
      [] s = "2. Deluppgifter a-z: 2p vardera" ->
        [NoText2Re EXCEPT
           !.main = 2,
           !.rem = Seg(<<-1, 2, -1>>, <<"a", "z">>, TRUE, TRUE, <<>>, 29),
           !.seg = Seg(<<-1, 2, -1>>, <<"a", "z">>, TRUE, TRUE, <<>>, 31),
           !.mains = <<[n |-> 2, at |-> 0, atEnd |-> FALSE]>>,
           !.lets = <<[L |-> "z", a |-> <<-1, 2, -1>>, alen |-> 11, b |-> NoPts, at |-> 17]>>,
           !.pre = <<[r |-> 23, p |-> <<-1, 2, -1>>]>>,
           !.suf = <<[r |-> 10, p |-> <<-1, 2, -1>>]>>]
      [] s = "3. Deluppgifter a-z: 2p vardera" ->
        [NoText2Re EXCEPT
           !.main = 3,
           !.rem = Seg(<<-1, 2, -1>>, <<"a", "z">>, TRUE, TRUE, <<>>, 29),
           !.seg = Seg(<<-1, 2, -1>>, <<"a", "z">>, TRUE, TRUE, <<>>, 31),
           !.mains = <<[n |-> 3, at |-> 0, atEnd |-> FALSE]>>,
           !.lets = <<[L |-> "z", a |-> <<-1, 2, -1>>, alen |-> 11, b |-> NoPts, at |-> 17]>>,
           !.pre = <<[r |-> 23, p |-> <<-1, 2, -1>>]>>,
           !.suf = <<[r |-> 10, p |-> <<-1, 2, -1>>]>>]
      [] s = "4. Deluppgifter a-z: 2p vardera" ->
        [NoText2Re EXCEPT
           !.main = 4,
           !.rem = Seg(<<-1, 2, -1>>, <<"a", "z">>, TRUE, TRUE, <<>>, 29),
           !.seg = Seg(<<-1, 2, -1>>, <<"a", "z">>, TRUE, TRUE, <<>>, 31),
           !.mains = <<[n |-> 4, at |-> 0, atEnd |-> FALSE]>>,
           !.lets = <<[L |-> "z", a |-> <<-1, 2, -1>>, alen |-> 11, b |-> NoPts, at |-> 17]>>,
           !.pre = <<[r |-> 23, p |-> <<-1, 2, -1>>]>>,
           !.suf = <<[r |-> 10, p |-> <<-1, 2, -1>>]>>]
      [] s = "5. Deluppgifter a-z: 2p vardera" ->
        [NoText2Re EXCEPT
           !.main = 5,
           !.rem = Seg(<<-1, 2, -1>>, <<"a", "z">>, TRUE, TRUE, <<>>, 29),
           !.seg = Seg(<<-1, 2, -1>>, <<"a", "z">>, TRUE, TRUE, <<>>, 31),
           !.mains = <<[n |-> 5, at |-> 0, atEnd |-> FALSE]>>,
           !.lets = <<[L |-> "z", a |-> <<-1, 2, -1>>, alen |-> 11, b |-> NoPts, at |-> 17]>>,
           !.pre = <<[r |-> 23, p |-> <<-1, 2, -1>>]>>,
           !.suf = <<[r |-> 10, p |-> <<-1, 2, -1>>]>>]
      [] s = "6. Deluppgifter a-z: 2p vardera" ->
        [NoText2Re EXCEPT
           !.main = 6,
           !.rem = Seg(<<-1, 2, -1>>, <<"a", "z">>, TRUE, TRUE, <<>>, 29),
           !.seg = Seg(<<-1, 2, -1>>, <<"a", "z">>, TRUE, TRUE, <<>>, 31),
           !.mains = <<[n |-> 6, at |-> 0, atEnd |-> FALSE]>>,
           !.lets = <<[L |-> "z", a |-> <<-1, 2, -1>>, alen |-> 11, b |-> NoPts, at |-> 17]>>,
           !.pre = <<[r |-> 23, p |-> <<-1, 2, -1>>]>>,
           !.suf = <<[r |-> 10, p |-> <<-1, 2, -1>>]>>]
      [] s = "7. Deluppgifter a-z: 2p vardera" ->
        [NoText2Re EXCEPT
           !.main = 7,
           !.rem = Seg(<<-1, 2, -1>>, <<"a", "z">>, TRUE, TRUE, <<>>, 29),
           !.seg = Seg(<<-1, 2, -1>>, <<"a", "z">>, TRUE, TRUE, <<>>, 31),
           !.mains = <<[n |-> 7, at |-> 0, atEnd |-> FALSE]>>,
           !.lets = <<[L |-> "z", a |-> <<-1, 2, -1>>, alen |-> 11, b |-> NoPts, at |-> 17]>>,
           !.pre = <<[r |-> 23, p |-> <<-1, 2, -1>>]>>,
           !.suf = <<[r |-> 10, p |-> <<-1, 2, -1>>]>>]
      [] OTHER -> NoText2Re

(* A line that matches none of the patterns. *)
NoHeadRe ==
    [main |-> 0, head |-> FALSE, punct |-> FALSE, icMain |-> 0,
     icLetter |-> "", fp |-> FALSE, sub |-> "", ctx |-> FALSE,
     sect |-> FALSE, dt |-> FALSE, multi |-> FALSE, pageInd |-> FALSE,
     scoreSum |-> FALSE, range |-> <<>>]

(* The regexes of detectQuestionsFromPages on each catalogue line. *)
HeadRe(s) ==
    CASE s = "Uppgift 1 (5p)" ->
        [NoHeadRe EXCEPT
           !.main = 1, !.head = TRUE]
      [] s = "a) Beskriv" ->
        [NoHeadRe EXCEPT
           !.sub = "a", !.ctx = TRUE]
      [] s = "Sektion 2: Analys" ->
        [NoHeadRe EXCEPT
           !.main = 2, !.head = TRUE, !.punct = TRUE, !.sect = TRUE]
      [] s = "Uppgift 2" ->
        [NoHeadRe EXCEPT
           !.main = 2, !.head = TRUE]
      [] s = "20p" ->
        [NoHeadRe EXCEPT
           !.main = 2]
      [] s = "Sida 3 av 10" ->
        [NoHeadRe EXCEPT
           !.pageInd = TRUE]
      [] s = "2024-05-21" ->
        [NoHeadRe EXCEPT
           !.main = 20, !.dt = TRUE]
      [] s = "1. Introduction" ->
        [NoHeadRe EXCEPT
           !.main = 1, !.punct = TRUE]
      [] s = "2a) derive..." ->
        [NoHeadRe EXCEPT
           !.main = 2]
      [] s = "2b) prove..." ->
        [NoHeadRe EXCEPT
           !.main = 2]
      [] s = "2P) Visa" ->
        [NoHeadRe EXCEPT
           !.icMain = 2, !.icLetter = "p", !.fp = TRUE, !.ctx = TRUE]
      [] s = "Uppgift 4 (3+2+1)p" ->
        [NoHeadRe EXCEPT
           !.main = 4, !.head = TRUE]
      [] s = "Uppgift 3 (5p)" ->
        [NoHeadRe EXCEPT
           !.main = 3, !.head = TRUE]
      [] s = "Uppgift 3 (7p)" ->
        [NoHeadRe EXCEPT
           !.main = 3, !.head = TRUE]
      [] s = "a)" ->
        [NoHeadRe EXCEPT
           !.sub = "a"]
      [] s = "Deluppgifter a-c: 2p vardera" ->
        [NoHeadRe EXCEPT
           !.range = <<"a", "c">>]
      [] s = "1. Deluppgifter a-z: 2p vardera" ->
        [NoHeadRe EXCEPT
           !.main = 1, !.punct = TRUE, !.range = <<"a", "z">>]
      [] s = "2. Deluppgifter a-z: 2p vardera" ->
        [NoHeadRe EXCEPT
           !.main = 2, !.punct = TRUE, !.range = <<"a", "z">>]
      [] s = "3. Deluppgifter a-z: 2p vardera" ->
        [NoHeadRe EXCEPT
           !.main = 3, !.punct = TRUE, !.range = <<"a", "z">>]
      [] s = "4. Deluppgifter a-z: 2p vardera" ->
        [NoHeadRe EXCEPT
           !.main = 4, !.punct = TRUE, !.range = <<"a", "z">>]
      [] s = "5. Deluppgifter a-z: 2p vardera" ->
        [NoHeadRe EXCEPT
           !.main = 5, !.punct = TRUE, !.range = <<"a", "z">>]
      [] s = "6. Deluppgifter a-z: 2p vardera" ->
        [NoHeadRe EXCEPT
           !.main = 6, !.punct = TRUE, !.range = <<"a", "z">>]
      [] s = "7. Deluppgifter a-z: 2p vardera" ->
        [NoHeadRe EXCEPT
           !.main = 7, !.punct = TRUE, !.range = <<"a", "z">>]
      [] OTHER -> NoHeadRe
(* The regexes of detectCourseCodeFromText and detectCourseName, addCandidate,
   looksTitleLike and the final cleanup of parsePdf on each catalogue line and
   on each name these capture; OTHER is the empty string. *)
CourseRe(s) ==
    CASE s = "Uppgift 1 (5p)" ->
        [codes |-> <<>>, labelled |-> "", tent |-> "", after |-> <<>>,
         has |-> {}, title |-> TRUE, cand |-> "excluded", letters |-> 8,
         name |-> "Uppgift 1 (5p)", bad |-> TRUE,
         compact |-> "Uppgift 1 (5p)"]
      [] s = "a) Beskriv" ->
        [codes |-> <<>>, labelled |-> "", tent |-> "", after |-> <<>>,
         has |-> {}, title |-> FALSE, cand |-> "ok", letters |-> 8,
         name |-> "a) Beskriv", bad |-> FALSE, compact |-> "a) Beskriv"]
      [] s = "Tentamen i Algebra" ->
        [codes |-> <<>>, labelled |-> "", tent |-> "Algebra", after |-> <<>>,
         has |-> {}, title |-> TRUE, cand |-> "ok", letters |-> 16,
         name |-> "Tentamen i Algebra", bad |-> FALSE,
         compact |-> "Tentamen i Algebra"]
      [] s = "Se 3 nedan a) b)" ->
        [codes |-> <<>>, labelled |-> "", tent |-> "", after |-> <<>>,
         has |-> {}, title |-> TRUE, cand |-> "ok", letters |-> 9,
         name |-> "Se 3 nedan a) b)", bad |-> FALSE, compact |-> "Se 3 nedan a) b)"]
      [] s = "Sektion 2: Analys" ->
        [codes |-> <<>>, labelled |-> "", tent |-> "", after |-> <<>>,
         has |-> {}, title |-> TRUE, cand |-> "excluded", letters |-> 13,
         name |-> "Sektion 2: Analys", bad |-> TRUE,
         compact |-> "Sektion 2: Analys"]
      [] s = "lorem ipsum" ->
        [codes |-> <<>>, labelled |-> "", tent |-> "", after |-> <<>>,
         has |-> {}, title |-> FALSE, cand |-> "ok", letters |-> 10,
         name |-> "lorem ipsum", bad |-> FALSE, compact |-> "lorem ipsum"]
      [] s = "Uppgift 2" ->
        [codes |-> <<>>, labelled |-> "", tent |-> "", after |-> <<>>,
         has |-> {}, title |-> TRUE, cand |-> "excluded", letters |-> 7,
         name |-> "Uppgift 2", bad |-> TRUE, compact |-> "Uppgift 2"]
      [] s = "20p" ->
        [codes |-> <<>>, labelled |-> "", tent |-> "", after |-> <<>>,
         has |-> {}, title |-> FALSE, cand |-> "skip", letters |-> 1,
         name |-> "20p", bad |-> TRUE, compact |-> "20p"]
      [] s = "Sida 3 av 10" ->
        [codes |-> <<>>, labelled |-> "", tent |-> "", after |-> <<>>,
         has |-> {}, title |-> TRUE, cand |-> "excluded", letters |-> 6,
         name |-> "Sida 3 av 10", bad |-> FALSE, compact |-> "Sida 3 av 10"]
      [] s = "2024-05-21" ->
        [codes |-> <<>>, labelled |-> "", tent |-> "", after |-> <<>>,
         has |-> {}, title |-> FALSE, cand |-> "skip", letters |-> 0,
         name |-> "2024-05-21", bad |-> TRUE, compact |-> "2024-05-21"]
      [] s = "1. Introduction" ->
        [codes |-> <<>>, labelled |-> "", tent |-> "", after |-> <<>>,
         has |-> {}, title |-> TRUE, cand |-> "excluded", letters |-> 12,
         name |-> "1. Introduction", bad |-> TRUE,
         compact |-> "1. Introduction"]
      [] s = "2a) derive..." ->
        [codes |-> <<>>, labelled |-> "", tent |-> "", after |-> <<>>,
         has |-> {}, title |-> FALSE, cand |-> "excluded", letters |-> 7,
         name |-> "2a) derive...", bad |-> TRUE, compact |-> "2a) derive"]
      [] s = "2b) prove..." ->
        [codes |-> <<>>, labelled |-> "", tent |-> "", after |-> <<>>,
         has |-> {}, title |-> FALSE, cand |-> "excluded", letters |-> 6,
         name |-> "2b) prove...", bad |-> TRUE, compact |-> "2b) prove"]
      [] s = "2P) Visa" ->
        [codes |-> <<>>, labelled |-> "", tent |-> "", after |-> <<>>,
         has |-> {}, title |-> TRUE, cand |-> "excluded", letters |-> 5,
         name |-> "2P) Visa", bad |-> TRUE, compact |-> "2P) Visa"]
      [] s = "Uppgift 4 (3+2+1)p" ->
        [codes |-> <<>>, labelled |-> "", tent |-> "", after |-> <<>>,
         has |-> {}, title |-> TRUE, cand |-> "excluded", letters |-> 8,
         name |-> "Uppgift 4 (3+2+1)p", bad |-> TRUE,
         compact |-> "Uppgift 4 (3+2+1)p"]
      [] s = "Uppgift 3 (5p)" ->
        [codes |-> <<>>, labelled |-> "", tent |-> "", after |-> <<>>,
         has |-> {}, title |-> TRUE, cand |-> "excluded", letters |-> 8,
         name |-> "Uppgift 3 (5p)", bad |-> TRUE,
         compact |-> "Uppgift 3 (5p)"]
      [] s = "Uppgift 3 (7p)" ->
        [codes |-> <<>>, labelled |-> "", tent |-> "", after |-> <<>>,
         has |-> {}, title |-> TRUE, cand |-> "excluded", letters |-> 8,
         name |-> "Uppgift 3 (7p)", bad |-> TRUE,
         compact |-> "Uppgift 3 (7p)"]
      [] s = "a)" ->
        [codes |-> <<>>, labelled |-> "", tent |-> "", after |-> <<>>,
         has |-> {}, title |-> FALSE, cand |-> "skip", letters |-> 1,
         name |-> "a)", bad |-> FALSE, compact |-> "a)"]
      [] s = "Deluppgifter a-c: 2p vardera" ->
        [codes |-> <<>>, labelled |-> "", tent |-> "", after |-> <<>>,
         has |-> {}, title |-> TRUE, cand |-> "excluded", letters |-> 22,
         name |-> "Deluppgifter a-c: 2p vardera", bad |-> FALSE,
         compact |-> "Deluppgifter a-c: 2p vardera"]
      [] s = "Kurskod: SF1624" ->
        [codes |-> <<[re |-> 1, code |-> "SF1624", by |-> 5], [re |-> 2, code |-> "SF1624", by |-> 5], [re |-> 3, code |-> "SF1624", by |-> 1]>>,
         labelled |-> "", tent |-> "", after |-> <<>>, has |-> {"SF1624"},
         title |-> TRUE, cand |-> "ok", letters |-> 9,
         name |-> "Kurskod: SF1624", bad |-> FALSE,
         compact |-> "Kurskod: SF1624"]
      [] s = "Algebra" ->
        [codes |-> <<>>, labelled |-> "", tent |-> "", after |-> <<>>,
         has |-> {}, title |-> TRUE, cand |-> "ok", letters |-> 7,
         name |-> "Algebra", bad |-> FALSE, compact |-> "Algebra"]
      [] OTHER ->
        [codes |-> <<>>, labelled |-> "", tent |-> "", after |-> <<>>,
         has |-> {}, title |-> FALSE, cand |-> "skip", letters |-> 0,
         name |-> "", bad |-> FALSE, compact |-> ""]

(* detectCourseCodeFromFilename and the file-name pattern of detectCourseName
   on each file name; OTHER is a name without a course code. *)
FileRe(s) ==
    CASE s = "tenta.pdf" ->
        [code |-> "", names |-> <<>>]
      [] s = "SF1624.pdf" ->
        [code |-> "SF1624", names |-> <<>>]
      [] OTHER ->
        [code |-> "", names |-> <<>>]

(***************************************************************************)
(* extractQuestionsFromLines                                               *)
(***************************************************************************)
(* mainOrder, subOrder, pointsByToken, pageByToken and currentMain *)
NoTokens ==
    [mainOrder |-> <<>>, subOrder |-> <<>>, pointsByToken |-> <<>>,
     pageByToken |-> <<>>, currentMain |-> 0]

ensureMain(st, n) ==
    [st EXCEPT !.mainOrder = IF n \in Range(@) THEN @ ELSE Append(@, n),
               !.subOrder = SetIfAbsent(@, n, <<>>)]

(* ensureMain(n); if (!arr.includes(L)) arr.push(L) *)
addSub(st, n, L) ==
    [ensureMain(st, n) EXCEPT
        !.subOrder[n] = IF L \in Range(@) THEN @ ELSE Append(@, L)]

setPage(st, token, page) ==
    [st EXCEPT !.pageByToken = SetIfAbsent(@, token, page)]
(* points that a later match overwrites *)
setPointsLast(st, token, pts) ==
    IF pts = -1 THEN st
    ELSE [st EXCEPT !.pointsByToken = (token :> pts) @@ @]
setPoints(st, token, pts) ==
    IF pts = -1 THEN st
    ELSE [st EXCEPT !.pointsByToken = SetIfAbsent(@, token, pts)]

(* one match of combinedRe in a line of page `page` *)
CombinedHitL(st, h, page) ==
    setPoints(setPage(addSub(st, h.n, h.L), Tok(h.n, h.L), page),
              Tok(h.n, h.L), h.pts)

(* "Deluppgifter a-d: 3p vardera": every letter of the range gets ptsEach *)
(* the loop over the letters of the range, which are distinct, as one
   update: the letters the main does not have are pushed in their order, and
   page and points are set for the tokens that have none *)
EachLetters(st, n, letters, ptsEach, page) ==
    IF ptsEach = -1 THEN st
    ELSE Let(ensureMain(st, n), LAMBDA s1 :
         Let({Tok(n, letters[k]) : k \in 1..Len(letters)}, LAMBDA tokens :
         [s1 EXCEPT
            !.subOrder[n] =
                @ \o SelectSeq(letters,
                               LAMBDA L : L \notin Range(s1.subOrder[n])),
            !.pageByToken = @ @@ [t \in tokens |-> page],
            !.pointsByToken = @ @@ [t \in tokens |-> ptsEach]]))

(* "(3+2+1)p": sub-letters a, b, c ... are made up when the main has none *)
DistributionOver(st, n, subs, list, page) ==
    LET f[k \in 0..Min(Len(subs), Len(list))] ==
            IF k = 0 THEN st
            ELSE setPoints(setPage(f[k - 1], Tok(n, subs[k]), page),
                           Tok(n, subs[k]), list[k])
    IN  f[Min(Len(subs), Len(list))]
(* a main line whose points list is not distributed *)
NoDistribution(st, n, list, page) == st
Distribution(st, n, list, page) ==
    IF list = <<>> THEN st
    ELSE Let(ensureMain(st, n), LAMBDA s1 :
         Let(IF s1.subOrder[n] = <<>>
             THEN [s1 EXCEPT !.subOrder[n] =
                      [k \in 1..Min(26, Len(list)) |-> Alphabet[k]]]
             ELSE s1, LAMBDA s2 :
         DistributionOver(s2, n, s2.subOrder[n], list, page)))

(* let pts = parsePts(a); if (pts == null) pts = parsePts(b) *)
PtsOr(a, b) == IF a # -1 THEN a ELSE b

(* every match of combinedRe in a line *)
CombinedHitsL(st, comb, page) ==
    LET c[h \in 0..Len(comb)] ==
            IF h = 0 THEN st ELSE CombinedHitL(c[h - 1], comb[h], page)
    IN  c[Len(comb)]

(* "Main line markers": the line starts with main number r.main *)
MainLine(st, r, next, page) ==
    Let(r.main, LAMBDA n :
    Let(setPoints(setPage([ensureMain(st, n) EXCEPT !.currentMain = n],
                          Tok(n, ""), page),
                  Tok(n, ""),
                  PtsOr(parsePts(<<r.rem.p>>), parsePts(<<next.p>>))),
        LAMBDA m2 :
    Let(eachRe(r.rem, next), LAMBDA each :
    Let(IF each = <<>> THEN m2
        ELSE EachLetters(m2, n, letterRange(each[1], each[2]),
                         parsePts(<<r.rem.p, next.p>>), page), LAMBDA m3 :
    Distribution(m3, n, parsePtsList(r.rem, next), page)))))

(* "Letter-only under current main" *)
LetterLine(st, r, next, page) ==
    Let(Tok(st.currentMain, r.letter), LAMBDA token :
    setPoints(setPage(addSub(st, st.currentMain, r.letter), token, page),
              token, PtsOr(parsePts(<<r.lrem.p>>), parsePts(<<next.p>>))))

(* the body of the loop over lines, for line k *)
LineStep(st, lines, k) ==
    Let(lines[k].page, LAMBDA page :
    Let(LineRe(lines[k].text), LAMBDA r :
    Let(IF k + 1 <= Len(lines) THEN LineRe(lines[k + 1].text).seg ELSE NoSeg,
        LAMBDA next :
    Let(CombinedHitsL(st, r.comb, page), LAMBDA s1 :
    IF r.main # 0 THEN MainLine(s1, r, next, page)
    ELSE IF r.letter # "" /\ s1.currentMain # 0
    THEN LetterLine(s1, r, next, page)
    ELSE s1))))

(* variant: the bare main is emitted before its sub-tokens *)
BareThenSubs(n, subs) ==
    <<Tok(n, "")>> \o [j \in 1..Len(subs) |-> Tok(n, subs[j])]

(* the tokens of one main: its sub-tokens, or the bare main without any *)
TokensOfMain(n, subs) ==
    IF Len(subs) > 0 THEN [j \in 1..Len(subs) |-> Tok(n, subs[j])]
    ELSE <<Tok(n, "")>>

(* "Emit final tokens preserving order": the mains in first-seen order, a
   main's sub-tokens when it has any and else the bare main, stopping after
   the main that reaches MaxTokens *)
EmitTokens(st) ==
    LET f[k \in 0..Len(st.mainOrder)] ==
            IF k = 0 THEN <<>>
            ELSE Let(f[k - 1], LAMBDA out :
                 IF Len(out) >= MaxTokens THEN out
                 ELSE out \o TokensOfMain(st.mainOrder[k],
                                          GetOr(st.subOrder, st.mainOrder[k], <<>>)))
    IN  f[Len(st.mainOrder)]

NoQuestions == <<>>

(* tokens.map(token => ({ id, number, points, page, ... })) *)
Questions(tokens, st) ==
    IF Len(tokens) = 0 THEN NoQuestions
    ELSE [k \in 1..Len(tokens) |->
            [number |-> tokens[k],
             points |-> GetOr(st.pointsByToken, tokens[k], 0),
             page |-> GetOr(st.pageByToken, tokens[k], 0),
             confidence |-> -1]]

extractQuestionsFromLines(lines) ==
    LET f[k \in 0..Len(lines)] ==
            IF k = 0 THEN NoTokens ELSE LineStep(f[k - 1], lines, k)
    IN  Let(f[Len(lines)], LAMBDA st : Questions(EmitTokens(st), st))

(***************************************************************************)
(* extractQuestionsFromText2                                               *)
(***************************************************************************)
(* `normalized`: the text with every run of white space, line breaks
   included, collapsed to one blank: its non-empty lines, in order *)
Normalized(text) == SelectSeq(text, LAMBDA l : l # "")

(* what the points patterns find in the first (pre) or last (suf) r
   characters of a line that a window cuts *)
PartPts(parts, r) ==
    LET fit == {k \in 1..Len(parts) : parts[k].r <= r}
    IN  IF fit = {} THEN NoPts
        ELSE parts[CHOOSE k \in fit : \A o \in fit : o <= k].p

(* The pieces of normalized.slice(end, end + 120) from line j on: `room`
   characters are left, one of them the blank before the line. *)
RECURSIVE FollowingPs(_, _, _)
FollowingPs(ne, j, room) ==
    IF j > Len(ne) \/ room < 2 THEN <<>>
    ELSE IF room < 1 + Text2Re(ne[j]).seg.len
    THEN <<PartPts(Text2Re(ne[j]).pre, room - 1)>>
    ELSE <<Text2Re(ne[j]).seg.p>>
         \o FollowingPs(ne, j + 1, room - 1 - Text2Re(ne[j]).seg.len)

(* The pieces of normalized.slice(index - 50, index) up to line j *)
RECURSIVE PrecedingPs(_, _, _)
PrecedingPs(ne, j, room) ==
    IF j < 1 \/ room < 2 THEN <<>>
    ELSE IF room < 1 + Text2Re(ne[j]).seg.len
    THEN <<PartPts(Text2Re(ne[j]).suf, room - 1)>>
    ELSE PrecedingPs(ne, j - 1, room - 1 - Text2Re(ne[j]).seg.len)
         \o <<Text2Re(ne[j]).seg.p>>

(* parsePts(ahead), and parsePts(behind) when that finds nothing, for a match
   whose text after it starts in line h.aj and text before it ends in h.bj *)
WindowPts(ne, h) ==
    PtsOr(parsePts(<<h.a>> \o FollowingPs(ne, h.aj + 1, AheadWindow - h.alen)),
          parsePts(PrecedingPs(ne, h.bj - 1, BehindWindow - h.at) \o <<h.b>>))

(* The matches of combinedRe in line j of `normalized`, followed by the match
   that joins a number ending line j to a letter marker starting line j + 1 *)
CombinedHitsIn(r, nx, j) ==
    [k \in 1..Len(r.comb) |->
        [n |-> r.comb[k].n, L |-> r.comb[k].L, aj |-> j, bj |-> j,
         a |-> r.comb[k].a, alen |-> r.comb[k].alen,
         b |-> r.comb[k].b, at |-> r.comb[k].at]]
    \o (IF r.trail # 0 /\ nx.lead # ""
        THEN <<[n |-> r.trail, L |-> nx.lead, aj |-> j + 1, bj |-> j,
                a |-> nx.leadA, alen |-> nx.leadLen,
                b |-> r.trailB, at |-> r.trailAt]>>
        ELSE <<>>)
CombinedHitsOfLine(ne, j) ==
    CombinedHitsIn(Text2Re(ne[j]),
                   IF j + 1 <= Len(ne) THEN Text2Re(ne[j + 1]) ELSE NoText2Re,
                   j)

RECURSIVE CombinedHits(_, _)
CombinedHits(ne, j) ==
    IF j > Len(ne) THEN <<>>
    ELSE CombinedHitsOfLine(ne, j) \o CombinedHits(ne, j + 1)

(* one match of combinedRe: the sub-token, and its points when it has none *)
CombinedHit(st, h, ne) ==
    Let(addSub(st, h.n, h.L), LAMBDA s1 :
    IF Tok(h.n, h.L) \in DOMAIN s1.pointsByToken THEN s1
    ELSE setPoints(s1, Tok(h.n, h.L), WindowPts(ne, h)))

(* "Combined number+letter like 2a), Uppg 3b:" over `normalized` *)
CombinedOver(st, hits, ne) ==
    LET f[k \in 0..Len(hits)] ==
            IF k = 0 THEN st
            ELSE Let(f[k - 1], LAMBDA prev :
                 IF Len(prev.mainOrder) >= MaxCombinedMains THEN prev
                 ELSE CombinedHit(prev, hits[k], ne))
    IN  f[Len(hits)]
CombinedPass(st, ne) == CombinedOver(st, CombinedHits(ne, 1), ne)

(* a line that starts with main number r.main *)
Text2MainLine(st, r, next) ==
    Let(r.main, LAMBDA n :
    Let([ensureMain(st, n) EXCEPT !.currentMain = n], LAMBDA m1 :
    Let(IF Len(m1.subOrder[n]) = 0
        THEN setPoints(m1, Tok(n, ""),
                       PtsOr(parsePts(<<r.rem.p>>), parsePts(<<next.p>>)))
        ELSE m1, LAMBDA m2 :
    Let(eachRe(r.rem, next), LAMBDA each :
    Let(IF each = <<>> THEN m2
        ELSE EachLetters(m2, n, letterRange(each[1], each[2]),
                         parsePts(<<r.rem.p, next.p>>), 0), LAMBDA m3 :
    Distribution(m3, n, parsePtsList(r.rem, next), 0))))))

(* a line that starts with a letter marker, under the current main *)
Text2LetterLine(st, r, next) ==
    setPoints(addSub(st, st.currentMain, r.letter),
              Tok(st.currentMain, r.letter),
              PtsOr(parsePts(<<r.lrem.p>>), parsePts(<<next.p>>)))

(* "Line-by-line for main titles and plain letters": the loop body, line k *)
Text2LineStep(st, lines, k) ==
    Let(Text2Re(lines[k]), LAMBDA r :
    Let(IF k + 1 <= Len(lines) THEN Text2Re(lines[k + 1]).seg ELSE NoSeg,
        LAMBDA next :
    IF r.main # 0 THEN Text2MainLine(st, r, next)
    ELSE IF r.letter # "" /\ st.currentMain # 0
    THEN Text2LetterLine(st, r, next)
    ELSE st))

LinePass(st, lines) ==
    LET f[k \in 0..Len(lines)] ==
            IF k = 0 THEN st ELSE Text2LineStep(f[k - 1], lines, k)
    IN  f[Len(lines)]

(* mainHits: the matches of mainGlobalRe, in order; a number that ends the
   whole text has nothing after it and is no match *)
MainHitsOfLine(ms, j, last) ==
    SelectSeq([k \in 1..Len(ms) |->
                 [n |-> ms[k].n, j |-> j, at |-> ms[k].at,
                  atEnd |-> ms[k].atEnd]],
              LAMBDA h : ~(h.atEnd /\ j = last))
RECURSIVE MainHits(_, _)
MainHits(ne, j) ==
    IF j > Len(ne) THEN <<>>
    ELSE MainHitsOfLine(Text2Re(ne[j]).mains, j, Len(ne))
         \o MainHits(ne, j + 1)

LetterHitsOfLine(ls, j) ==
    [k \in 1..Len(ls) |->
        [L |-> ls[k].L, aj |-> j, bj |-> j, a |-> ls[k].a,
         alen |-> ls[k].alen, b |-> ls[k].b, at |-> ls[k].at]]
RECURSIVE LetterHits(_, _)
LetterHits(ne, j) ==
    IF j > Len(ne) THEN <<>>
    ELSE LetterHitsOfLine(Text2Re(ne[j]).lets, j) \o LetterHits(ne, j + 1)

(* the main a letter marker is attached to: the last hit at or before it *)
Attached(mainHits, h) ==
    LET before == {k \in 1..Len(mainHits) :
                      \/ mainHits[k].j < h.aj
                      \/ mainHits[k].j = h.aj /\ mainHits[k].at <= h.at}
    IN  IF before = {} THEN 0
        ELSE mainHits[CHOOSE k \in before : \A o \in before : o <= k].n

(* a letter marker bound to main n (0: no main before it) *)
Bound(st, n, h, ne) ==
    IF n = 0 THEN st
    ELSE setPoints(addSub(st, n, h.L), Tok(n, h.L), WindowPts(ne, h))

(* "Global main and letters binding by proximity" *)
GlobalOver(st, mainHits, lets, ne) ==
    LET f[k \in 0..Len(lets)] ==
            IF k = 0 THEN st
            ELSE Bound(f[k - 1], Attached(mainHits, lets[k]), lets[k], ne)
    IN  f[Len(lets)]
GlobalPass(st, ne) == GlobalOver(st, MainHits(ne, 1), LetterHits(ne, 1), ne)

extractQuestionsFromText2(text) ==
    Let(Normalized(text), LAMBDA ne :
    Let(GlobalPass(LinePass(CombinedPass(NoTokens, ne), text), ne),
        LAMBDA st : Questions(EmitTokens(st), st)))

(***************************************************************************)
(* Text items, lines and the layout-aware detector                         *)
(***************************************************************************)
(* Array.prototype.sort with a comparator: stable; Before(a, b) is
   "compare(a, b) < 0" *)
Sorted(s, Before(_, _)) == SortSeq(s, Before)

Abs(v) == IF v < 0 THEN -v ELSE v

(* spans.sort((a, b) => (b.y - a.y) || (a.x - b.x)) *)
SpanBefore(a, b) == a.y > b.y \/ (a.y = b.y /\ a.x < b.x)

(* variant: a span that finds a line within tol is not added to it *)
JoinsNoLine(raw, sp, near) ==
    IF near = {} THEN Append(raw, [y |-> sp.y, parts |-> <<sp>>]) ELSE raw

(* rawLines: a span joins the first line whose y is within tol of its own *)
JoinLine(raw, sp, near) ==
    IF near = {} THEN Append(raw, [y |-> sp.y, parts |-> <<sp>>])
    ELSE [raw EXCEPT ![CHOOSE h \in near : \A o \in near : h <= o].parts =
                        Append(@, sp)]
RawLines(spans, tol) ==
    LET f[k \in 0..Len(spans)] ==
            IF k = 0 THEN <<>>
            ELSE Let(f[k - 1], LAMBDA raw :
                 JoinLine(raw, spans[k],
                          {h \in 1..Len(raw) :
                              Abs(raw[h].y - spans[k].y) <= tol}))
    IN  f[Len(spans)]

(* the line string: the parts left to right, a blank where the x gap is
   above the threshold *)
Composed(parts, gap) ==
    LET f[k \in 0..Len(parts)] ==
            IF k = 0 THEN ""
            ELSE Let(f[k - 1], LAMBDA s :
                 IF s # "" /\ k > 1 /\ parts[k].x - parts[k - 1].x > gap
                 THEN s \o " " \o parts[k].text
                 ELSE s \o parts[k].text)
    IN  f[Len(parts)]

(* the spans: the items with a non-empty string *)
Spans(items) ==
    Let(SelectSeq(items, LAMBDA it : it.str # ""), LAMBDA its :
    [k \in 1..Len(its) |-> [text |-> its[k].str, x |-> its[k].x, y |-> its[k].y]])

(* one raw line: its parts sorted by x, composed and cleaned *)
LineOf(rawLine, page, gap) ==
    Let(Sorted(rawLine.parts, LAMBDA a, b : a.x < b.x), LAMBDA parts :
    [text |-> Clean(Composed(parts, gap)), page |-> page,
     x |-> parts[1].x, y |-> rawLine.y])

(* buildLinesFromItems of pdfServer.ts (tol = yTol, gap = gapX) and of the
   question detector (tol = yTolerancePx, gap = gapXThresholdPx): the lines
   carry x and y, which only the detector reads *)
BuildLines(items, page, tol, gap) ==
    Let(RawLines(Sorted(Spans(items), SpanBefore), tol), LAMBDA raw :
    SelectSeq([k \in 1..Len(raw) |-> LineOf(raw[k], page, gap)],
              LAMBDA l : l.text # ""))

buildLinesFromItems(items, page) ==
    Let(BuildLines(items, page, yTol, gapX), LAMBDA b :
    [k \in 1..Len(b) |-> [text |-> b[k].text, page |-> b[k].page]])

(* the page text parsePdf appends to fullText: the items joined by blanks,
   a line break after an item with hasEOL; as lines *)
PageTextStep(b, it) ==
    IF it.hasEOL
    THEN [done |-> Append(b.done, Clean(b.cur \o (IF b.any THEN " " ELSE "")
                                              \o it.str)),
          cur |-> "", any |-> TRUE]
    ELSE [done |-> b.done,
          cur |-> b.cur \o (IF b.any THEN " " ELSE "") \o it.str,
          any |-> TRUE]
PageTextOver(its) ==
    LET f[k \in 0..Len(its)] ==
            IF k = 0 THEN [done |-> <<>>, cur |-> "", any |-> FALSE]
            ELSE PageTextStep(f[k - 1], its[k])
    IN  f[Len(its)]
PageText(items) ==
    Let(PageTextOver(SelectSeq(items, LAMBDA it : it.str # "")), LAMBDA b :
    Append(b.done, Clean(b.cur)))

(* ---- filterHeaderFooterLines ---- *)
PagesOf(lines) ==
    LET f[k \in 0..Len(lines)] ==
            IF k = 0 THEN <<>>
            ELSE Let(f[k - 1], LAMBDA seen :
                 IF lines[k].page \in Range(seen) THEN seen
                 ELSE Append(seen, lines[k].page))
    IN  f[Len(lines)]
LinesOfPage(lines, p) == SelectSeq(lines, LAMBDA l : l.page = p)

(* topCount / bottomCount of a text: once per line among the first TOP_K
   (last BOTTOM_K) lines of each page *)
RECURSIVE SumOver(_, _)
SumOver(f, S) ==
    IF S = {} THEN 0
    ELSE LET e == CHOOSE e \in S : TRUE IN f[e] + SumOver(f, S \ {e})
TopOnPage(arr, text) ==
    Cardinality({k \in 1..Min(TOP_K, Len(arr)) : arr[k].text = text})
BottomOnPage(arr, text) ==
    Cardinality({k \in Max(1, Len(arr) - BOTTOM_K + 1)..Len(arr) :
                    arr[k].text = text})
TopCount(lines, ps, text) ==
    SumOver([p \in ps |-> TopOnPage(LinesOfPage(lines, p), text)], ps)
BottomCount(lines, ps, text) ==
    SumOver([p \in ps |-> BottomOnPage(LinesOfPage(lines, p), text)], ps)

(* Math.max(2, Math.floor(0.6 * Math.max(1, totalPages))) *)
HeaderFooterThreshold(totalPages) == Max(2, (6 * Max(1, totalPages)) \div 10)

(* a filter that drops a common text wherever it stands on the page *)
KeptOfPageAnywhere(lines, ps, arr, thr) ==
    SelectSeq([k \in 1..Len(arr) |-> [ln |-> arr[k], k |-> k]], LAMBDA e :
        ~ \/ TopCount(lines, ps, e.ln.text) >= thr
          \/ BottomCount(lines, ps, e.ln.text) >= thr)
(* the lines of one page that are no common header or footer *)
KeptOfPage(lines, ps, arr, thr) ==
    SelectSeq([k \in 1..Len(arr) |-> [ln |-> arr[k], k |-> k]], LAMBDA e :
        ~ \/ (e.k <= 3 /\ TopCount(lines, ps, e.ln.text) >= thr)
          \/ (e.k >= Len(arr) - 2 /\ BottomCount(lines, ps, e.ln.text) >= thr))
FilteredOver(lines, pages, thr) ==
    LET out[k \in 0..Len(pages)] ==
            IF k = 0 THEN <<>>
            ELSE out[k - 1]
                 \o KeptOfPage(lines, Range(pages),
                               LinesOfPage(lines, pages[k]), thr)
    IN  out[Len(pages)]
filterHeaderFooterLines(lines, totalPages) ==
    Let(FilteredOver(lines, PagesOf(lines), HeaderFooterThreshold(totalPages)),
        LAMBDA out :
    Sorted([k \in 1..Len(out) |-> out[k].ln], LAMBDA a, b : a.page < b.page))

(***************************************************************************)
(* detectQuestionsFromPages (the question detector)                        *)
(***************************************************************************)
(* percentile(values, p): arr[min(n - 1, max(0, floor(p / 100 * n)))] *)
percentile(values, p) ==
    IF Len(values) = 0 THEN 0
    ELSE Sorted(values, LAMBDA a, b : a < b)
            [1 + Min(Len(values) - 1, Max(0, (p * Len(values)) \div 100))]

(* isHeaderFooter: "header", "footer" or "" (null) *)
HeaderFooterAt(y, pageMinY, pageMaxY, percent, span) ==
    IF 100 * y >= 100 * pageMaxY - percent * span THEN "header"
    ELSE IF 100 * y <= 100 * pageMinY + percent * span THEN "footer"
    ELSE ""
isHeaderFooter(y, pageMinY, pageMaxY, percent) ==
    HeaderFooterAt(y, pageMinY, pageMaxY, percent, Max(1, pageMaxY - pageMinY))

(* confFromScore, in parts of ConfScale: (s - thr) / max(1, MAX_SCORE - thr)
   clamped to [0, 1] is ConfFromScore(s) / ConfScale *)
ConfScale == Max(1, MAX_SCORE - scoreThreshold)
ConfFromScore(s) == Max(0, Min(ConfScale, s - scoreThreshold))

NoDetection ==
    [allTokens |-> <<>>, lastMain |-> 0, lastMainPage |-> 0,
     anyMainAccepted |-> FALSE, lastSectionPage |-> -1]

(* a new entry of allTokens; a token without the positions property has
   positions <<>> *)
TokenMeta(token, kind, parent, page, ln, score) ==
    [token |-> token, kind |-> kind, parent |-> parent,
     page |-> page, x |-> ln.x, y |-> ln.y,
     confidence |-> ConfFromScore(score), positions |-> <<>>]

(* conf.debug: DEFAULT_CONFIG.debug, which no caller overrides *)
confDebug == FALSE

(* if (!tokenIndex.has(token)) allTokens.push(...)
   else if (conf.debug) allTokens[idx].positions = [...positions, pos] *)
PushToken(st, token, kind, parent, page, ln, score) ==
    IF \E k \in 1..Len(st.allTokens) : st.allTokens[k].token = token
    THEN IF confDebug
         THEN [st EXCEPT !.allTokens =
                [k \in 1..Len(st.allTokens) |->
                    IF st.allTokens[k].token = token
                    THEN [st.allTokens[k] EXCEPT !.positions =
                            Append(@, [page |-> page, x |-> ln.x, y |-> ln.y])]
                    ELSE st.allTokens[k]]]
         ELSE st
    ELSE [st EXCEPT !.allTokens =
            Append(@, TokenMeta(token, kind, parent, page, ln, score))]

(* mainNum, subLetter and isSubOnly of a line: reMainHead, else
   reInlineCombined, else reSubOnly *)
Candidate(r) ==
    IF r.main # 0
    THEN [m |-> TRUE, mainNum |-> r.main, subLetter |-> "", isSubOnly |-> FALSE]
    ELSE IF r.icMain # 0
    THEN [m |-> FALSE, mainNum |-> r.icMain, subLetter |-> r.icLetter,
          isSubOnly |-> FALSE]
    ELSE [m |-> FALSE, mainNum |-> 0, subLetter |-> r.sub,
          isSubOnly |-> r.sub # ""]

(* the score of the line before the sequence heuristics *)
SignalScore(r, nx, c, ln, xThreshold, headerFoot) ==
    (IF c.m /\ r.head THEN 3 ELSE 0)
    + (IF c.m /\ r.punct THEN 2 ELSE 0)
    + (IF ~c.m /\ r.icMain # 0 THEN 2 ELSE 0)
    + (IF c.mainNum # 0 /\ ln.x <= xThreshold THEN 2 ELSE 0)
    + (IF c.mainNum # 0 /\ (r.ctx \/ nx.ctx) THEN 1 ELSE 0)
    - (IF r.dt THEN 3 ELSE 0)
    - (IF r.multi THEN 2 ELSE 0)
    - (IF headerFoot # "" THEN 2 ELSE 0)

(* "Sequence heuristics" *)
SequenceScore(mainNum, st, page) ==
    IF mainNum = 0 THEN 0
    ELSE IF st.lastMain > 0
    THEN IF mainNum = st.lastMain + 1 THEN 2
         ELSE IF mainNum = st.lastMain THEN 1
         ELSE IF mainNum = st.lastMain + 2 THEN 0
         ELSE IF /\ mainNum < st.lastMain - 1
                 /\ page > st.lastMainPage + 1
                 /\ ~(st.lastSectionPage >= st.lastMainPage)
              THEN -2 ELSE 0
    ELSE (IF mainNum > 5 /\ page <= 2 THEN -3 ELSE 0)
         + (IF mainNum >= 15 THEN -2 ELSE 0)

(* "Accept main candidate" *)
AcceptMain(st, mainNum, page, ln, score) ==
    [PushToken(st, ToString(mainNum), "main", "", page, ln, score)
        EXCEPT !.lastMain = Max(@, mainNum), !.lastMainPage = page,
               !.anyMainAccepted = TRUE]

(* "Sub handling": the parent is the accepted main, else lastMain, else the
   line's own number *)
SubParent(st, c, acceptedMain) ==
    IF acceptedMain THEN c.mainNum
    ELSE IF st.lastMain # 0 THEN st.lastMain ELSE c.mainNum
SubToken(st, c, acceptedMain, parent, page, ln, score) ==
    IF /\ c.subLetter # ""
       /\ \/ acceptedMain
          \/ (~c.isSubOnly /\ st.anyMainAccepted)
          \/ st.lastMain > 0
       /\ parent # 0
    THEN PushToken(st, Tok(parent, c.subLetter), "sub", ToString(parent),
                   page, ln, score)
    ELSE st

(* "Expand subrange near accepted mains": the letters of the range, which
   are distinct, as one update; a letter whose token exists is passed over,
   with no position recorded *)
SubRange(st, mainNum, letters, page, ln, score) ==
    Let({st.allTokens[k].token : k \in 1..Len(st.allTokens)}, LAMBDA have :
    Let(SelectSeq(letters, LAMBDA L : Tok(mainNum, L) \notin have),
        LAMBDA new :
    [st EXCEPT !.allTokens =
        @ \o [j \in 1..Len(new) |->
                TokenMeta(Tok(mainNum, new[j]), "sub", ToString(mainNum),
                          page, ln, score)]]))
RangeLetters(range) ==
    IF range = <<>> THEN <<>> ELSE letterRange(range[1], range[2])

(* the body of the while loop for line k of a page *)
DetectLine(st, lines, k, page, xThreshold, maxY) ==
    Let(lines[k], LAMBDA ln :
    Let(HeadRe(ln.text), LAMBDA r :
    Let(IF k + 1 <= Len(lines) THEN HeadRe(lines[k + 1].text) ELSE NoHeadRe,
        LAMBDA nx :
    Let(Candidate(r), LAMBDA c :
    Let(r.sect /\ ln.x <= xThreshold, LAMBDA section :
    Let(IF section
        THEN [st EXCEPT !.lastMain = 0, !.lastSectionPage = page]
        ELSE st, LAMBDA s0 :
    Let(SignalScore(r, nx, c, ln, xThreshold,
                    isHeaderFooter(ln.y, 0, maxY, headerFooterPercent))
        + SequenceScore(c.mainNum, s0, page), LAMBDA score :
    Let(/\ ~(r.fp \/ section \/ r.pageInd \/ r.scoreSum)
        /\ c.mainNum # 0
        /\ score >= scoreThreshold, LAMBDA acceptedMain :
    Let(IF acceptedMain THEN AcceptMain(s0, c.mainNum, page, ln, score)
        ELSE s0, LAMBDA s1 :
    Let(SubToken(s1, c, acceptedMain, SubParent(s1, c, acceptedMain),
                 page, ln, score), LAMBDA s2 :
    IF acceptedMain
    THEN SubRange(s2, c.mainNum,
                  RangeLetters(IF r.range # <<>> THEN r.range ELSE nx.range),
                  page, ln, score)
    ELSE s2))))))))))

(* a comparator that leaves the tokens as they were pushed *)
InsertionOrder(a, b) == FALSE
(* tokens in document order: page asc, y desc, x asc *)
TokenBefore(a, b) ==
    \/ a.page < b.page
    \/ a.page = b.page /\ a.y > b.y
    \/ a.page = b.page /\ a.y = b.y /\ a.x < b.x

MaxOf(S) == CHOOSE v \in S : \A o \in S : o <= v

(* the lines of one page, top to bottom *)
DetectPage(st, pageInput, lines, xThreshold, maxY) ==
    LET f[j \in 0..Len(lines)] ==
            IF j = 0 THEN st
            ELSE DetectLine(f[j - 1], lines, j, pageInput.page, xThreshold, maxY)
    IN  f[Len(lines)]

(* linesByPage in page order, then the pages one by one with the global
   left-margin threshold *)
DetectOver(pages, linesByPage, xThresholdGlobal) ==
    LET g[k \in 0..Len(pages)] ==
            IF k = 0 THEN NoDetection
            ELSE IF Len(pages[k].items) = 0 \/ Len(linesByPage[k]) = 0
            THEN g[k - 1]
            ELSE DetectPage(g[k - 1], pages[k], linesByPage[k],
                            xThresholdGlobal,
                            MaxOf({linesByPage[k][j].y :
                                     j \in 1..Len(linesByPage[k])}))
    IN  g[Len(pages)]
AllXs(linesByPage) ==
    LET xs[k \in 0..Len(linesByPage)] ==
            IF k = 0 THEN <<>>
            ELSE xs[k - 1] \o [j \in 1..Len(linesByPage[k]) |->
                                 linesByPage[k][j].x]
    IN  xs[Len(linesByPage)]

(* pages: a sequence of [page, items] *)
detectQuestionsFromPages(pages) ==
    Let([k \in 1..Len(pages) |->
            BuildLines(pages[k].items, pages[k].page, yTolerancePx,
                       gapXThresholdPx)], LAMBDA linesByPage :
    Sorted(DetectOver(pages, linesByPage,
                      percentile(AllXs(linesByPage), leftMarginPercentile))
              .allTokens, TokenBefore))
(***************************************************************************)
(* Course code and course name                                             *)
(*                                                                         *)
(* A missing value (undefined, or a field the object does not have) is     *)
(* the empty string.                                                       *)
(***************************************************************************)
detectCourseCodeFromFilename(name) == FileRe(name).code

(* the matches of the labelled patterns, then of the generic ones, each in
   text order; every match bumps the score of its code, and the first code
   with the highest score wins *)
CodeHits(text) ==
    LET hits[r \in 0..5] ==
            IF r = 0 THEN <<>>
            ELSE LET h[k \in 0..Len(text)] ==
                         IF k = 0 THEN hits[r - 1]
                         ELSE h[k - 1] \o SelectSeq(CourseRe(text[k]).codes,
                                                    LAMBDA c : c.re = r)
                 IN  h[Len(text)]
    IN  hits[5]
CodeScores(hits) ==
    LET scores[k \in 0..Len(hits)] ==
            IF k = 0 THEN <<>>
            ELSE Let(scores[k - 1], LAMBDA sc :
                 IF \E j \in 1..Len(sc) : sc[j].code = hits[k].code
                 THEN [j \in 1..Len(sc) |->
                         IF sc[j].code = hits[k].code
                         THEN [sc[j] EXCEPT !.by = @ + hits[k].by]
                         ELSE sc[j]]
                 ELSE Append(sc, hits[k]))
    IN  scores[Len(hits)]
detectCourseCodeFromText(text) ==
    Let(CodeScores(CodeHits(text)), LAMBDA all :
    IF all = <<>> THEN ""
    ELSE all[CHOOSE j \in 1..Len(all) :
                /\ \A o \in 1..Len(all) : all[o].by <= all[j].by
                /\ \A o \in 1..(j - 1) : all[o].by < all[j].by].code)

(* addCandidate(name, delta): nothing, an excluded candidate, or a candidate
   with score delta *)
addCandidate(name, delta) ==
    Let(CourseRe(name), LAMBDA r :
    IF r.cand = "skip" THEN <<>>
    ELSE <<[name |-> r.name, letters |-> r.letters,
            score |-> IF r.cand = "excluded" THEN -3 ELSE delta]>>)

(* the first element of `lines` that has something to capture *)
FirstCapture(lines, Capture(_)) ==
    Let({k \in 1..Len(lines) : Capture(lines[k]) # ""}, LAMBDA S :
    IF S = {} THEN ""
    ELSE Capture(lines[CHOOSE k \in S : \A o \in S : k <= o]))
(* the name a list of [code, name] holds for courseCode *)
NameFor(list, courseCode) ==
    Let(SelectSeq(list, LAMBDA e : e.code = courseCode), LAMBDA es :
    IF es = <<>> THEN "" ELSE es[1].name)
(* the line below the first of the first 40 lines that holds the course code *)
BelowCode(top, courseCode) ==
    Let({k \in 1..Min(Len(top), 40) : courseCode \in CourseRe(top[k]).has},
        LAMBDA S :
    IF S = {} THEN ""
    ELSE Let(CHOOSE k \in S : \A o \in S : k <= o, LAMBDA k :
         IF k + 1 <= Len(top) THEN top[k + 1] ELSE ""))
(* the title-like lines among the first 60, with a bonus among the first 20 *)
TopTitles(top) ==
    LET f[k \in 0..Min(Len(top), 60)] ==
            IF k = 0 THEN <<>>
            ELSE IF CourseRe(top[k]).title
            THEN f[k - 1] \o addCandidate(top[k], IF k <= 20 THEN 2 ELSE 1)
            ELSE f[k - 1]
    IN  f[Min(Len(top), 60)]

(* detectCourseName(text, fileName, courseCode); the texts of the model are
   shorter than the top block of 120 lines and 1500 characters *)
detectCourseName(text, fileName, courseCode) ==
    Let(SelectSeq(text, LAMBDA l : l # ""), LAMBDA top :
    Let(addCandidate(FirstCapture(top, LAMBDA l : CourseRe(l).labelled), 3)
        \o addCandidate(FirstCapture(top, LAMBDA l : CourseRe(l).tent), 3)
        \o (IF courseCode = "" THEN <<>>
            ELSE addCandidate(FirstCapture(top, LAMBDA l :
                                  NameFor(CourseRe(l).after, courseCode)), 2)
                 \o addCandidate(NameFor(FileRe(fileName).names, courseCode), 2)
                 \o addCandidate(BelowCode(top, courseCode), 2))
        \o TopTitles(top), LAMBDA candidates :
    Let(Sorted(candidates, LAMBDA a, b :
            \/ a.score > b.score
            \/ a.score = b.score /\ a.letters > b.letters), LAMBDA best :
    IF best = <<>> THEN ""
    ELSE IF best[1].score > 0 THEN best[1].name ELSE "")))

(* "Final cleanup" of parsePdf *)
CourseNameCleanup(courseName) ==
    IF courseName = "" \/ CourseRe(courseName).bad THEN ""
    ELSE CourseRe(courseName).compact

(* courseCode of parsePdf: from the file name, else from the text *)
CourseCode(text, fileName) ==
    IF detectCourseCodeFromFilename(fileName) # "" \/ text = <<"">>
    THEN detectCourseCodeFromFilename(fileName)
    ELSE detectCourseCodeFromText(text)
(* courseName of parsePdf before the return statement *)
CourseName(text, fileName) ==
    CourseNameCleanup(detectCourseName(text, fileName,
                                       CourseCode(text, fileName)))

(***************************************************************************)
(* parsePdf                                                                *)
(*                                                                         *)
(* parsePdf is one async function.  pc is its position; an action is the   *)
(* stretch of code from one position to the next, with every call it       *)
(* makes.  What the collaborators (pdf.js, the canvas, Tesseract) return   *)
(* or throw is the environment's choice.                                   *)
(***************************************************************************)
(* ---- the documents of the model ---- *)
Item(s, x, y, eol) == [str |-> s, x |-> x, y |-> y, hasEOL |-> eol]

(* content.items of a page: a blank (scanned) page, a question with a
   sub-question, a title, a title over an inline reference, a title over an
   indented section heading *)
PageSamples ==
    { <<>>,
      <<Item("Uppgift 1", 50, 700, FALSE), Item("(5p)", 120, 701, TRUE),
        Item("a) Beskriv ", 50, 680, TRUE)>>,
      <<Item("Tentamen i Algebra", 50, 700, FALSE)>>,
      <<Item("Tentamen i Algebra", 50, 700, TRUE),
        Item("Se 3 nedan a) b)", 50, 400, FALSE)>>,
      <<Item("Tentamen i Algebra", 50, 700, TRUE),
        Item("Sektion 2: Analys", 90, 400, FALSE)>> }

(* pdf.numPages: short documents and one page past each page limit *)
PageCounts ==
    {1, 2, 3, LayoutMaxPages + 1, QuickOcrPages + 1, DeepOcrPages + 1}

(* res.data.text of one recognized page: nothing, text without a question,
   text with a question *)
OcrTexts == {<<"">>, <<"lorem ipsum">>, <<"Uppgift 2">>}

(* what a source of loadTesseract provides: nothing, a module with only
   recognize, a module with createWorker *)
TesseractModules == {"none", "plain", "worker"}

(* ---- strings that hold a text ---- *)
EmptyText == <<"">>
(* .trim() of a text: the blank lines at both ends go *)
Trim(text) ==
    Let({k \in 1..Len(text) : text[k] # ""}, LAMBDA full :
    IF full = {} THEN EmptyText
    ELSE SubSeq(text, CHOOSE k \in full : \A o \in full : k <= o,
                CHOOSE k \in full : \A o \in full : o <= k))
(* ocrParts.join('\n') *)
JoinParts(parts) ==
    LET f[k \in 0..Len(parts)] ==
            IF k = 0 THEN <<>> ELSE f[k - 1] \o parts[k]
    IN  IF Len(parts) = 0 THEN EmptyText ELSE f[Len(parts)]

VARIABLES
    numPages,           \* pdf.numPages
    deepOcr,            \* opts.deepOcr
    doc,                \* the text items of the first pages; later pages have none
    fileName,           \* file.name
    env,                \* import.meta.env.MODE and process.env.NODE_ENV ("none": no process)
    pc,                 \* the position in parsePdf
    i,                  \* the loop variable of the current page loop
    fullText, structuredLines, textForParsing, questionsDetected,
    detectorPages,      \* the pages read for the layout fallback, while it runs
    ocrParts,
    worker,             \* "none", "live" or "terminated"
    canvasOpen,         \* a canvas of the OCR loop still holds its bitmap
    error,              \* the exception on its way to the top-level catch
    result,             \* what parsePdf resolved to
    log,                \* the detection runs so far, in order, with their output
    failed,             \* the places where a collaborator has thrown
    ocrFetched,         \* pages fetched by the OCR loop
    ocrRecognized,      \* pages passed to recognize
    ctxNulls,           \* canvases that gave no 2d context
    call,               \* a function of the module called on its own, with its arguments
    returned,           \* what that call returned
    localStorage,       \* the value under STORAGE_KEYS.EXAMS, "none" without one
    dbExams,            \* the rows of db.exams (IndexedDB)
    saveTask,           \* the saveExams / saveExamsAsync call that is running
    fallbacks,          \* how often saveExamsAsync has fallen back to saveExams
    examsFile,          \* the items of server/data/exams.json
    requests            \* the ExamsStore calls of the server, each with its position

vars ==
    <<numPages, deepOcr, doc, fileName, env, pc, i, fullText, structuredLines,
      textForParsing, questionsDetected, detectorPages, ocrParts, worker,
      canvasOpen, error, result, log, failed, ocrFetched, ocrRecognized,
      ctxNulls, call, returned, localStorage, dbExams, saveTask, fallbacks,
      examsFile, requests>>

inputs == <<numPages, deepOcr, doc, fileName, env>>
unit == <<call, returned>>
stores == <<localStorage, dbExams, saveTask, fallbacks, examsFile, requests>>
textLayer == <<fullText, structuredLines>>
ocrState == <<ocrParts, worker, canvasOpen, ocrFetched, ocrRecognized, ctxNulls>>

(* pdf?.numPages || 1 *)
maxPages == IF numPages = 0 THEN 1 ELSE numPages
(* Math.min(pdf.numPages || 1, 10) *)
maxDetPages == Min(maxPages, LayoutMaxPages)
(* the OCR loop without its page limit *)
ocrPagesUnlimited == maxPages
(* Math.min(pdf.numPages || 1, deep ? 100 : 20) *)
ocrPages == Min(maxPages, IF deepOcr THEN DeepOcrPages ELSE QuickOcrPages)

(* content.items of page p *)
ItemsOf(p) == IF p <= Len(doc) THEN doc[p] ELSE <<>>

(* no exam is being saved in the browser and no request runs on the server *)
StoresIdle ==
    /\ localStorage = "none"
    /\ dbExams = <<>>
    /\ saveTask = [stage |-> "none"]
    /\ fallbacks = 0
    /\ examsFile = <<>>
    /\ requests = <<>>

NoResult == [kind |-> "none", questions |-> <<>>, extractedText |-> <<>>]
(* no function called on its own has returned *)
NotReturned == [done |-> FALSE]

(* the state when parsePdf is called, for a choice of documents, file names
   and builds *)
Start(pageCounts, samples, fileNames, envs) ==
    /\ numPages \in pageCounts
    /\ deepOcr \in BOOLEAN
    /\ doc \in [1..Min(numPages, MaxTextPages) -> samples]
    /\ fileName \in fileNames
    /\ env \in envs
    /\ pc = "load"
    /\ i = 0
    /\ fullText = EmptyText
    /\ structuredLines = <<>>
    /\ textForParsing = EmptyText
    /\ questionsDetected = <<>>
    /\ detectorPages = <<>>
    /\ ocrParts = <<>>
    /\ worker = "none"
    /\ canvasOpen = FALSE
    /\ error = ""
    /\ result = NoResult
    /\ log = <<>>
    /\ failed = {}
    /\ ocrFetched = 0
    /\ ocrRecognized = 0
    /\ ctxNulls = 0
    /\ call = [fn |-> "parsePdf"]
    /\ returned = NotReturned
    /\ StoresIdle

(* a development build in a browser, a file name without a course code *)
Init ==
    Start(PageCounts, PageSamples, {"tenta.pdf"},
          {[MODE |-> "development", NODE_ENV |-> "none"]})

(* short documents with and without a title and a course code, under both
   file names and every build *)
OutcomeInit ==
    Start({1, 2},
          { <<>>,
            <<Item("Tentamen i Algebra", 50, 700, FALSE)>>,
            <<Item("Kurskod: SF1624", 50, 700, TRUE),
              Item("Uppgift 1 (5p)", 50, 600, FALSE)>> },
          {"tenta.pdf", "SF1624.pdf"},
          [MODE : {"production", "development"},
           NODE_ENV : {"production", "development", "none"}])

(* ---- the pieces of parsePdf ---- *)
(* the module loadTesseract resolves to: window.Tesseract, else the local
   package, else what the injected CDN script leaves in window.Tesseract;
   "none" is null.  window and document exist together (a browser). *)
loadTesseract(global, local, cdn, browser) ==
    IF browser /\ global # "none" THEN global
    ELSE IF local # "none" THEN local
    ELSE IF browser THEN cdn
    ELSE "none"

(* no try but the outermost one *)
CaughtAtTopLevel(site) == "catch"
(* where control continues after a collaborator throws at `site`: the
   top-level catch, or the statement after the enclosing try *)
Caught(site) ==
    CASE site \in {"load", "textRead"} -> "catch"
      [] site = "layoutRead" -> "ocrLoad"
      [] site \in {"ocrInit", "ocrPage"} -> "finish"

(* the text layer handing over to OCR at once *)
SkipsLayout(qd) == IF Len(qd) = 0 THEN "ocrLoad" ELSE "finish"
(* `if (!questionsDetected || questionsDetected.length === 0)` before the
   layout fallback *)
AfterTextLayer(qd) == IF Len(qd) = 0 THEN "layoutPage" ELSE "finish"
(* OCR whatever the layout fallback found *)
AlwaysOcr(qd) == "ocrLoad"
(* `if (!questionsDetected || questionsDetected.length === 0)` before OCR *)
AfterLayout(qd) == IF Len(qd) = 0 THEN "ocrLoad" ELSE "finish"

(* a quick loop without its break *)
NeverStops(qd) == FALSE
(* `if (questionsDetected.length > 0) break` of the quick OCR loop *)
StopsScanning(qd) == Len(qd) > 0

(* a loop that detects after every page in both modes *)
DetectsEveryPage(deep) == TRUE
(* `if (!deep)` around the detection inside the OCR loop *)
DetectsPerPage(deep) == ~deep
(* `if (deep)` around the detection after the OCR loop *)
DetectsAtEnd(deep) == deep

(* Math.round(Math.max(0, Math.min(1, tk.confidence ?? 0)) * 100), the
   confidence given in parts of ConfScale *)
RoundPercent(c) == (200 * Max(0, Min(ConfScale, c)) + ConfScale) \div (2 * ConfScale)

(* det.tokens.map(tk => ({ number: tk.token, points: 0, page: tk.page, ... })) *)
LayoutQuestions(tokens) ==
    [k \in 1..Len(tokens) |->
        [number |-> tokens[k].token, points |-> 0, page |-> tokens[k].page,
         confidence |-> RoundPercent(tokens[k].confidence)]]

(* "Dedupe by question number": the first entry of each number stays *)
Dedupe(questions) ==
    LET f[k \in 0..Len(questions)] ==
            IF k = 0 THEN <<>>
            ELSE IF \E h \in 1..(k - 1) :
                       questions[h].number = questions[k].number
            THEN f[k - 1]
            ELSE Append(f[k - 1], questions[k])
    IN  f[Len(questions)]

(* the detected questions with the last run appended to them, undeduped *)
FinalQuestionsAppended(qd, text) == qd \o extractQuestionsFromText2(text)
(* the questions returned: the detected ones, else a last run of
   extractQuestionsFromText2 over textForParsing; then the dedupe *)
FinalQuestions(qd, text) ==
    Dedupe(IF Len(qd) > 0 THEN qd ELSE extractQuestionsFromText2(text))

(* a build test that looks at import.meta.env.MODE only *)
isProdByMode == env.MODE = "production"
(* isProd: import.meta.env.MODE or process.env.NODE_ENV is 'production' *)
isProd == env.MODE = "production" \/ env.NODE_ENV = "production"

(* the object of the return statement; every text of the model is shorter
   than the 5000 characters of extractedText; the course name is the
   literal of the source, written without its diaeresis; __debug is spread
   in only when the build is not a production build *)
Return(questions, text) ==
    [kind |-> "ok", questions |-> questions, extractedText |-> text,
     courseName |-> "Okant kursnamn",
     courseCode |-> CourseCode(text, fileName),
     debug |-> ~isProd]

(* a catch that throws again: the promise of parsePdf is rejected *)
Rejects(err) ==
    [kind |-> "rejected", questions |-> <<>>, extractedText |-> <<>>,
     courseName |-> "", courseCode |-> "", debug |-> FALSE]
(* a catch that returns a stand-in question *)
TopLevelCatchPlaceholder(err) ==
    [kind |-> "error",
     questions |-> <<[number |-> "1", points |-> 0, page |-> 1,
                      confidence |-> 0]>>,
     extractedText |-> <<"Failed to extract text: " \o err>>,
     courseName |-> "", courseCode |-> detectCourseCodeFromFilename(fileName),
     debug |-> FALSE]
(* the object the top-level catch returns: no courseName, no __debug *)
TopLevelCatch(err) ==
    [kind |-> "error", questions |-> <<>>,
     extractedText |-> <<"Failed to extract text: " \o err>>,
     courseName |-> "", courseCode |-> detectCourseCodeFromFilename(fileName),
     debug |-> FALSE]

Ran(ev, out) == [ev |-> ev, out |-> out]

(* ---- loading the document ---- *)
Load ==
    /\ pc = "load"
    /\ pc' = "textPage"
    /\ i' = 1
    /\ UNCHANGED <<inputs, stores, unit, textLayer, textForParsing,
                   questionsDetected, detectorPages, ocrState, error, result,
                   log, failed>>

LoadFails ==
    /\ pc = "load"
    /\ pc' = Caught("load")
    /\ error' = "Error: Invalid PDF structure"
    /\ failed' = failed \cup {"load"}
    /\ UNCHANGED <<inputs, stores, unit, i, textLayer, textForParsing,
                   questionsDetected, detectorPages, ocrState, result, log>>

(* ---- the text layer, page i ---- *)
ReadTextPage ==
    /\ pc = "textPage"
    /\ \E items \in {ItemsOf(i)} :
          IF Len(items) = 0
          THEN UNCHANGED textLayer
          ELSE /\ fullText' = IF fullText # EmptyText
                              THEN fullText \o PageText(items)
                              ELSE PageText(items)
               /\ structuredLines' =
                      structuredLines \o buildLinesFromItems(items, i)
    /\ i' = i + 1
    /\ pc' = IF i + 1 <= maxPages THEN "textPage" ELSE "detect"
    /\ UNCHANGED <<inputs, stores, unit, textForParsing, questionsDetected,
                   detectorPages, ocrState, error, result, log, failed>>

(* getPage or getTextContent rejects: nothing in the loop catches it *)
ReadTextPageFails ==
    /\ pc = "textPage"
    /\ i <= MaxFailPage
    /\ pc' = Caught("textRead")
    /\ error' = "Error: page"
    /\ failed' = failed \cup {"textRead"}
    /\ UNCHANGED <<inputs, stores, unit, i, textLayer, textForParsing,
                   questionsDetected, detectorPages, ocrState, result, log>>

(* ---- detection on the text layer: lines, then the flat text ---- *)
DetectTextLayer ==
    /\ pc = "detect"
    /\ \E byLines \in {extractQuestionsFromLines(
                          filterHeaderFooterLines(structuredLines, maxPages))} :
          IF Len(byLines) > 0
          THEN /\ questionsDetected' = byLines
               /\ log' = Append(log, Ran("lines", byLines))
               /\ pc' = AfterTextLayer(byLines)
          ELSE \E byText \in {extractQuestionsFromText2(fullText)} :
                  /\ questionsDetected' = byText
                  /\ log' = log \o <<Ran("lines", byLines), Ran("text2", byText)>>
                  /\ pc' = AfterTextLayer(byText)
    /\ textForParsing' = fullText
    /\ i' = 1
    /\ detectorPages' = <<>>
    /\ UNCHANGED <<inputs, stores, unit, textLayer, ocrState, error, result,
                   failed>>

(* ---- the layout fallback ---- *)
LayoutReadPage ==
    /\ pc = "layoutPage"
    /\ detectorPages' =
           Append(detectorPages, [page |-> i, items |-> ItemsOf(i)])
    /\ i' = i + 1
    /\ pc' = IF i + 1 <= maxDetPages THEN "layoutPage" ELSE "layoutDetect"
    /\ UNCHANGED <<inputs, stores, unit, textLayer, textForParsing,
                   questionsDetected, ocrState, error, result, log, failed>>

(* re-reading a page rejects: the fallback's own catch swallows it *)
LayoutReadFails ==
    /\ pc = "layoutPage"
    /\ i <= MaxFailPage
    /\ pc' = Caught("layoutRead")
    /\ log' = Append(log, Ran("layout", <<>>))
    /\ failed' = failed \cup {"layoutRead"}
    /\ detectorPages' = <<>>
    /\ UNCHANGED <<inputs, stores, unit, i, textLayer, textForParsing,
                   questionsDetected, ocrState, error, result>>

LayoutDetect ==
    /\ pc = "layoutDetect"
    /\ \E found \in {LayoutQuestions(detectQuestionsFromPages(detectorPages))} :
          /\ log' = Append(log, Ran("layout", found))
          /\ IF Len(found) > 0
             THEN /\ questionsDetected' = found
                  /\ pc' = AfterLayout(found)
             ELSE /\ UNCHANGED questionsDetected
                  /\ pc' = AfterLayout(questionsDetected)
    /\ detectorPages' = <<>>
    /\ UNCHANGED <<inputs, stores, unit, i, textLayer, textForParsing, ocrState,
                   error, result, failed>>

(* ---- OCR ---- *)
(* `await loadTesseract()`, then `if (Tesseract && typeof document !==
   'undefined')` and the choice between a worker and plain recognize *)
OcrLoad ==
    /\ pc = "ocrLoad"
    /\ \E global \in TesseractModules, local \in TesseractModules,
          cdn \in TesseractModules, browser \in BOOLEAN :
          \E Tesseract \in {loadTesseract(global, local, cdn, browser)} :
              IF Tesseract = "none" \/ ~browser
              THEN /\ pc' = "finish"
                   /\ failed' = failed \cup {"ocrLoad"}
              ELSE /\ pc' = IF Tesseract = "worker" THEN "ocrInit"
                            ELSE "ocrPage"
                   /\ UNCHANGED failed
    /\ log' = Append(log, Ran("ocrLoad", <<>>))
    /\ i' = 1
    /\ UNCHANGED <<inputs, stores, unit, textLayer, textForParsing,
                   questionsDetected, detectorPages, ocrState, error, result>>

(* createWorker, load, loadLanguage, initialize *)
OcrInit ==
    /\ pc = "ocrInit"
    /\ worker' = "live"
    /\ pc' = "ocrPage"
    /\ UNCHANGED <<inputs, stores, unit, i, textLayer, textForParsing,
                   questionsDetected, detectorPages, ocrParts, canvasOpen,
                   ocrFetched, ocrRecognized, ctxNulls, error, result, log,
                   failed>>

(* one of the four rejects, createWorker before there is a worker *)
OcrInitFails ==
    /\ pc = "ocrInit"
    /\ worker' \in {"none", "live"}
    /\ pc' = Caught("ocrInit")
    /\ failed' = failed \cup {"ocrInit"}
    /\ UNCHANGED <<inputs, stores, unit, i, textLayer, textForParsing,
                   questionsDetected, detectorPages, ocrParts, canvasOpen,
                   ocrFetched, ocrRecognized, ctxNulls, error, result, log>>

(* page i: the canvas gives no 2d context; the page is skipped *)
OcrPageNoContext ==
    /\ pc = "ocrPage"
    /\ ctxNulls < MaxCtxNull
    /\ ctxNulls' = ctxNulls + 1
    /\ ocrFetched' = ocrFetched + 1
    /\ i' = i + 1
    /\ pc' = IF i + 1 <= ocrPages THEN "ocrPage" ELSE "ocrEnd"
    /\ UNCHANGED <<inputs, stores, unit, textLayer, textForParsing,
                   questionsDetected, detectorPages, ocrParts, worker,
                   canvasOpen, ocrRecognized, error, result, log, failed>>

(* page i is rendered and recognized; recognize returns a text or throws
   (its own catch leaves textChunk empty) *)
OcrPage ==
    /\ pc = "ocrPage"
    /\ \E got \in OcrTexts, throws \in BOOLEAN :
          /\ throws => got = EmptyText
          /\ got # EmptyText => Len(ocrParts) < MaxOcrChunks
          /\ failed' = IF throws THEN failed \cup {"recognize"} ELSE failed
          /\ IF got = EmptyText
             THEN /\ UNCHANGED <<ocrParts, textForParsing, questionsDetected,
                                 log>>
                  /\ pc' = IF i + 1 <= ocrPages THEN "ocrPage" ELSE "ocrEnd"
             ELSE \E text \in {Trim(fullText \o JoinParts(Append(ocrParts, got)))} :
                     /\ ocrParts' = Append(ocrParts, got)
                     /\ textForParsing' = text
                     /\ IF ~DetectsPerPage(deepOcr)
                        THEN /\ UNCHANGED <<questionsDetected, log>>
                             /\ pc' = IF i + 1 <= ocrPages THEN "ocrPage"
                                      ELSE "ocrEnd"
                        ELSE \E qd \in {extractQuestionsFromText2(text)} :
                                /\ questionsDetected' = qd
                                /\ log' = Append(log, Ran("ocrPage", qd))
                                /\ pc' = IF StopsScanning(qd) THEN "ocrEnd"
                                         ELSE IF i + 1 <= ocrPages
                                         THEN "ocrPage"
                                         ELSE "ocrEnd"
    /\ ocrFetched' = ocrFetched + 1
    /\ ocrRecognized' = ocrRecognized + 1
    /\ i' = i + 1
    /\ UNCHANGED <<inputs, stores, unit, textLayer, detectorPages, worker,
                   canvasOpen, ctxNulls, error, result>>

(* getPage rejects, or render does with the canvas already sized: the
   catch around the OCR block swallows it *)
OcrPageFails ==
    /\ pc = "ocrPage"
    /\ i <= MaxFailPage
    /\ \E rendering \in BOOLEAN : canvasOpen' = rendering
    /\ ocrFetched' = ocrFetched + 1
    /\ pc' = Caught("ocrPage")
    /\ failed' = failed \cup {"ocrPage"}
    /\ UNCHANGED <<inputs, stores, unit, i, textLayer, textForParsing,
                   questionsDetected, detectorPages, ocrParts, worker,
                   ocrRecognized, ctxNulls, error, result, log>>

(* after the loop: the worker is terminated (a throw is swallowed) and deep
   mode runs its detection *)
OcrEnd ==
    /\ pc = "ocrEnd"
    /\ worker' \in IF worker = "live" THEN {"terminated", "live"} ELSE {worker}
    /\ IF DetectsAtEnd(deepOcr)
       THEN \E qd \in {extractQuestionsFromText2(textForParsing)} :
               /\ questionsDetected' = qd
               /\ log' = Append(log, Ran("ocrEnd", qd))
       ELSE UNCHANGED <<questionsDetected, log>>
    /\ pc' = "finish"
    /\ UNCHANGED <<inputs, stores, unit, i, textLayer, textForParsing,
                   detectorPages, ocrParts, canvasOpen, ocrFetched,
                   ocrRecognized, ctxNulls, error, result, failed>>

(* ---- the return statement ---- *)
Finish ==
    /\ pc = "finish"
    /\ log' = IF Len(questionsDetected) > 0 THEN log
              ELSE Append(log, Ran("final",
                                   extractQuestionsFromText2(textForParsing)))
    /\ result' = Return(FinalQuestions(questionsDetected, textForParsing),
                        textForParsing)
    /\ pc' = "done"
    /\ UNCHANGED <<inputs, stores, unit, i, textLayer, textForParsing,
                   questionsDetected, detectorPages, ocrState, error, failed>>

(* ---- the top-level catch ---- *)
TopCatch ==
    /\ pc = "catch"
    /\ result' = TopLevelCatch(error)
    /\ pc' = "done"
    /\ UNCHANGED <<inputs, stores, unit, i, textLayer, textForParsing,
                   questionsDetected, detectorPages, ocrState, error, log,
                   failed>>

Next ==
    \/ Load \/ LoadFails
    \/ ReadTextPage \/ ReadTextPageFails
    \/ DetectTextLayer
    \/ LayoutReadPage \/ LayoutReadFails \/ LayoutDetect
    \/ OcrLoad \/ OcrInit \/ OcrInitFails
    \/ OcrPageNoContext \/ OcrPage \/ OcrPageFails
    \/ OcrEnd
    \/ Finish
    \/ TopCatch

Spec == Init /\ [][Next]_vars
OutcomeSpec == OutcomeInit /\ [][Next]_vars
(***************************************************************************)
(* The functions of the module called on their own                        *)
(*                                                                         *)
(* call holds the function and its arguments, returned what it returned.   *)
(***************************************************************************)
MaxUnitLines == 3
MaxFilterLines == 7

SeqsUpTo(S, n) == UNION {[1..m -> S] : m \in 1..n}

(* content.items of a page that shows the given lines one below the other
   at the left margin *)
PageOfTexts(texts) ==
    [k \in 1..Len(texts) |-> Item(texts[k], 50, 700 - 60 * (k - 1), TRUE)]
(* the lines of one page, as buildLinesFromItems returns them *)
LinesOfTexts(texts, page) ==
    [k \in 1..Len(texts) |-> [text |-> texts[k], page |-> page]]

(* one page of up to MaxUnitLines lines, and two pages handed over in
   either order *)
DetectorCalls ==
    {[fn |-> "detectQuestionsFromPages",
      pages |-> <<[page |-> 1, items |-> PageOfTexts(t)]>>] :
        t \in SeqsUpTo({"Tentamen i Algebra", "1. Introduction",
                        "2a) derive...", "2b) prove...", "Sektion 2: Analys",
                        "2P) Visa", "Uppgift 2", "a)", "20p",
                        "Sida 3 av 10", "2024-05-21"}, MaxUnitLines)}
    \cup
    {[fn |-> "detectQuestionsFromPages",
      pages |-> <<[page |-> o[1], items |-> PageOfTexts(t[1])],
                  [page |-> o[2], items |-> PageOfTexts(t[2])]>>] :
        o \in {<<1, 2>>, <<2, 1>>},
        t \in [1..2 -> SeqsUpTo({"1. Introduction", "Uppgift 2", "a)"},
                                MaxUnitLines - 1)]}
LinesCalls ==
    {[fn |-> "extractQuestionsFromLines", lines |-> LinesOfTexts(t, 1)] :
        t \in SeqsUpTo({"Tentamen i Algebra", "Uppgift 4 (3+2+1)p",
                        "Uppgift 3 (5p)", "Uppgift 3 (7p)", "a) Beskriv", "a)",
                        "Deluppgifter a-c: 2p vardera", "Uppgift 2",
                        "lorem ipsum", "20p", "Sida 3 av 10", "2024-05-21"},
                       MaxUnitLines)}
Text2Calls ==
    {[fn |-> "extractQuestionsFromText2", text |-> t] :
        t \in SeqsUpTo({"Tentamen i Algebra", "Uppgift 2", "Uppgift 3 (5p)",
                        "Uppgift 3 (7p)", "Deluppgifter a-c: 2p vardera", "a)",
                        "20p", "Sida 3 av 10", "2024-05-21"}, MaxUnitLines)}
(* a first page long enough to have lines outside both bands, a second page
   that is absent or repeats one text, in documents of one to three pages *)
FilterCalls ==
    {[fn |-> "filterHeaderFooterLines",
      lines |-> LinesOfTexts(a, 1) \o LinesOfTexts(b, 2),
      totalPages |-> n] :
        a \in [1..MaxFilterLines -> {"Uppgift 2", "lorem ipsum"}],
        b \in {<<>>} \cup {[k \in 1..MaxFilterLines |-> t] :
                              t \in {"Uppgift 2", "lorem ipsum"}},
        n \in 1..3}

(* the first n of the heading lines "1. Deluppgifter a-z: 2p vardera",
   "2. Deluppgifter a-z: 2p vardera", ...: 26 sub-questions each *)
MaxCapLines == 6
CapTexts(n) == [k \in 1..n |-> ToString(k) \o ". Deluppgifter a-z: 2p vardera"]
CapCalls ==
    UNION {{[fn |-> "detectQuestionsFromPages",
             pages |-> <<[page |-> 1, items |-> PageOfTexts(CapTexts(n))]>>],
            [fn |-> "extractQuestionsFromLines",
             lines |-> LinesOfTexts(CapTexts(n), 1)],
            [fn |-> "extractQuestionsFromText2", text |-> CapTexts(n)]} :
           n \in (MaxCapLines - 1)..MaxCapLines}

(* glyph runs for buildLinesFromItems: a text, a blank and an empty string,
   at the left margin, further right on the same line (one unit higher) and
   on a line below; up to MaxRunItems runs, for the function of pdfServer.ts
   and the one of the question detector *)
MaxRunItems == 3
RunItems ==
    {Item(s, at[1], at[2], FALSE) :
        s \in {"Uppgift 2", " ", ""},
        at \in {<<50, 700>>, <<120, 701>>, <<50, 640>>}}
BuildCalls ==
    {[fn |-> f, items |-> its, page |-> 1] :
        f \in {"buildLinesFromItems", "questionDetector.buildLinesFromItems"},
        its \in SeqsUpTo(RunItems, MaxRunItems)}

UnitInit ==
    /\ call \in DetectorCalls \cup LinesCalls \cup Text2Calls \cup FilterCalls
                \cup CapCalls \cup BuildCalls
    /\ returned = NotReturned
    /\ pc = "unit"
    /\ numPages = 1
    /\ deepOcr = FALSE
    /\ doc = <<<<>>>>
    /\ fileName = ""
    /\ env = [MODE |-> "development", NODE_ENV |-> "none"]
    /\ i = 0
    /\ fullText = EmptyText
    /\ structuredLines = <<>>
    /\ textForParsing = EmptyText
    /\ questionsDetected = <<>>
    /\ detectorPages = <<>>
    /\ ocrParts = <<>>
    /\ worker = "none"
    /\ canvasOpen = FALSE
    /\ error = ""
    /\ result = NoResult
    /\ log = <<>>
    /\ failed = {}
    /\ ocrFetched = 0
    /\ ocrRecognized = 0
    /\ ctxNulls = 0
    /\ StoresIdle

Returns(value) ==
    /\ returned' = [done |-> TRUE, value |-> value]
    /\ pc' = "returned"
    /\ UNCHANGED <<inputs, stores, call, i, textLayer, textForParsing,
                   questionsDetected, detectorPages, ocrState, error, result,
                   log, failed>>

DetectorReturns ==
    /\ pc = "unit"
    /\ call.fn = "detectQuestionsFromPages"
    /\ Returns(detectQuestionsFromPages(call.pages))
LinesReturns ==
    /\ pc = "unit"
    /\ call.fn = "extractQuestionsFromLines"
    /\ Returns(extractQuestionsFromLines(call.lines))
Text2Returns ==
    /\ pc = "unit"
    /\ call.fn = "extractQuestionsFromText2"
    /\ Returns(extractQuestionsFromText2(call.text))
FilterReturns ==
    /\ pc = "unit"
    /\ call.fn = "filterHeaderFooterLines"
    /\ Returns(filterHeaderFooterLines(call.lines, call.totalPages))

BuildLinesReturns ==
    /\ pc = "unit"
    /\ \/ /\ call.fn = "buildLinesFromItems"
          /\ Returns(buildLinesFromItems(call.items, call.page))
       \/ /\ call.fn = "questionDetector.buildLinesFromItems"
          /\ Returns(BuildLines(call.items, call.page, yTolerancePx,
                                gapXThresholdPx))

UnitNext ==
    \/ DetectorReturns
    \/ LinesReturns
    \/ Text2Returns
    \/ FilterReturns
    \/ BuildLinesReturns

UnitSpec == UnitInit /\ [][UnitNext]_vars

(* the call has returned *)
Returned(fn) == call.fn = fn /\ returned.done


(***************************************************************************)
(* Saving the exams in the browser: saveExams and saveExamsAsync           *)
(***************************************************************************)
MaxExams == 2
MaxFallbacks == 3

(* an exam: its id and whether it carries the uploaded file as a Blob *)
Exams == {[id |-> n, fileBlob |-> b] : n \in 1..MaxExams, b \in BOOLEAN}
ExamLists == {<<>>} \cup SeqsUpTo(Exams, MaxExams)
(* exams.map(({ fileBlob, ...e }) => e) *)
Serializable(exams) == [k \in 1..Len(exams) |-> [id |-> exams[k].id]]

(* parsePdf is not running *)
ParserIdle ==
    /\ numPages = 1
    /\ deepOcr = FALSE
    /\ doc = <<<<>>>>
    /\ fileName = ""
    /\ env = [MODE |-> "development", NODE_ENV |-> "none"]
    /\ i = 0
    /\ fullText = EmptyText
    /\ structuredLines = <<>>
    /\ textForParsing = EmptyText
    /\ questionsDetected = <<>>
    /\ detectorPages = <<>>
    /\ ocrParts = <<>>
    /\ worker = "none"
    /\ canvasOpen = FALSE
    /\ error = ""
    /\ result = NoResult
    /\ log = <<>>
    /\ failed = {}
    /\ ocrFetched = 0
    /\ ocrRecognized = 0
    /\ ctxNulls = 0
    /\ returned = NotReturned
parser ==
    <<inputs, i, textLayer, textForParsing, questionsDetected, detectorPages,
      ocrState, error, result, log, failed, unit, pc>>

(* saveExams(exams) or saveExamsAsync(exams) is called with IndexedDB empty
   or holding an exam *)
SaveInit ==
    /\ ParserIdle
    /\ pc = "save"
    /\ call \in {[fn |-> f, exams |-> e] :
                    f \in {"saveExams", "saveExamsAsync"}, e \in ExamLists}
    /\ saveTask = [stage |-> call.fn, exams |-> call.exams]
    /\ localStorage = "none"
    /\ dbExams \in {<<>>, <<[id |-> 1, fileBlob |-> FALSE]>>}
    /\ fallbacks = 0
    /\ examsFile = <<>>
    /\ requests = <<>>

(* the body of saveExams: setItem, which may throw (the quota), and then the
   call of saveExamsAsync, which runs up to its first await,
   db.exams.clear() *)
SaveExamsRuns(exams, setItemThrows) ==
    IF setItemThrows
    THEN /\ saveTask' = [stage |-> "done", exams |-> exams]
         /\ UNCHANGED localStorage
    ELSE /\ localStorage' = Serializable(exams)
         /\ saveTask' = [stage |-> "clear", exams |-> exams]

saveExams ==
    /\ pc = "save"
    /\ saveTask.stage = "saveExams"
    /\ \E setItemThrows \in BOOLEAN :
          SaveExamsRuns(saveTask.exams, setItemThrows)
    /\ UNCHANGED <<parser, dbExams, fallbacks, examsFile, requests>>

saveExamsAsync ==
    /\ pc = "save"
    /\ saveTask.stage = "saveExamsAsync"
    /\ saveTask' = [saveTask EXCEPT !.stage = "clear"]
    /\ UNCHANGED <<parser, localStorage, dbExams, fallbacks, examsFile,
                   requests>>

(* `await db.exams.clear()` resolves; bulkAdd is called for a list that is
   not empty *)
ClearResolves ==
    /\ pc = "save"
    /\ saveTask.stage = "clear"
    /\ dbExams' = <<>>
    /\ saveTask' = [saveTask EXCEPT
                      !.stage = IF Len(saveTask.exams) > 0 THEN "bulkAdd"
                                ELSE "done"]
    /\ UNCHANGED <<parser, localStorage, fallbacks, examsFile, requests>>

(* `await db.exams.bulkAdd(exams)` resolves *)
BulkAddResolves ==
    /\ pc = "save"
    /\ saveTask.stage = "bulkAdd"
    /\ dbExams' = saveTask.exams
    /\ saveTask' = [saveTask EXCEPT !.stage = "done"]
    /\ UNCHANGED <<parser, localStorage, fallbacks, examsFile, requests>>

(* clear or bulkAdd rejects (bulkAdd with some of the rows added): the catch
   of saveExamsAsync calls saveExams(exams) *)
WriteRejects ==
    /\ pc = "save"
    /\ saveTask.stage \in {"clear", "bulkAdd"}
    /\ fallbacks < MaxFallbacks
    /\ fallbacks' = fallbacks + 1
    /\ IF saveTask.stage = "clear" THEN UNCHANGED dbExams
       ELSE \E added \in 0..(Len(saveTask.exams) - 1) :
               dbExams' = SubSeq(saveTask.exams, 1, added)
    /\ \E setItemThrows \in BOOLEAN :
          SaveExamsRuns(saveTask.exams, setItemThrows)
    /\ UNCHANGED <<parser, examsFile, requests>>

SaveNext ==
    \/ saveExams
    \/ saveExamsAsync
    \/ ClearResolves
    \/ BulkAddResolves
    \/ WriteRejects

SaveSpec == SaveInit /\ [][SaveNext]_vars

(***************************************************************************)
(* The exams of the server: ExamsStore over server/data/exams.json         *)
(***************************************************************************)
MaxRequests == 2
MaxId == 3

(* the item request r writes for id *)
ItemOf(id, r) == [id |-> id, writtenBy |-> r]
HasId(items, id) == \E k \in 1..Len(items) : items[k].id = id

(* up to MaxRequests calls of create, update and remove on pairwise
   different ids, received while exams.json is empty or holds item 1 *)
StoreInit ==
    /\ ParserIdle
    /\ pc = "store"
    /\ call = [fn |-> "ExamsStore"]
    /\ examsFile \in {<<>>, <<ItemOf(1, 0)>>}
    /\ requests \in
          {rs \in UNION {[1..n -> [op : {"create", "update", "remove"},
                                   id : 1..MaxId,
                                   stage : {"_loadAll"},
                                   data : {<<>>}]] : n \in 1..MaxRequests} :
              \A a, b \in DOMAIN rs : rs[a].id = rs[b].id => a = b}
    /\ localStorage = "none"
    /\ dbExams = <<>>
    /\ saveTask = [stage |-> "none"]
    /\ fallbacks = 0

(* create after its _loadAll: `ID already exists`, or the item is pushed
   and _saveAll called *)
CreateWith(req, r, items) ==
    IF HasId(items, req.id)
    THEN [req EXCEPT !.stage = "rejected", !.data = items]
    ELSE [req EXCEPT !.stage = "writeFile",
                     !.data = Append(items, ItemOf(req.id, r))]
(* update after its _loadAll: the upsert through create, which loads again,
   or the patched item in its place *)
UpdateWith(req, r, items) ==
    IF ~HasId(items, req.id)
    THEN [req EXCEPT !.stage = "create._loadAll", !.data = items]
    ELSE [req EXCEPT !.stage = "writeFile",
                     !.data = [k \in 1..Len(items) |->
                                 IF items[k].id = req.id
                                 THEN ItemOf(req.id, r) ELSE items[k]]]
(* remove after its _loadAll: the items without the id, saved if that
   changed the list *)
RemoveWith(req, items) ==
    Let(SelectSeq(items, LAMBDA e : e.id # req.id), LAMBDA kept :
    [req EXCEPT !.stage = IF Len(kept) # Len(items) THEN "writeFile"
                          ELSE "resolved",
                !.data = kept])

(* readJsonSafe of _loadAll resolves for request r *)
LoadAll ==
    \E r \in DOMAIN requests :
        /\ pc = "store"
        /\ requests[r].stage = "_loadAll"
        /\ requests' =
              [requests EXCEPT ![r] =
                  CASE @.op = "create" -> CreateWith(@, r, examsFile)
                    [] @.op = "update" -> UpdateWith(@, r, examsFile)
                    [] @.op = "remove" -> RemoveWith(@, examsFile)]
        /\ UNCHANGED <<parser, localStorage, dbExams, saveTask, fallbacks,
                       examsFile>>

(* the _loadAll of the create that update calls for an id it did not find *)
UpsertLoadAll ==
    \E r \in DOMAIN requests :
        /\ pc = "store"
        /\ requests[r].stage = "create._loadAll"
        /\ requests' = [requests EXCEPT ![r] = CreateWith(@, r, examsFile)]
        /\ UNCHANGED <<parser, localStorage, dbExams, saveTask, fallbacks,
                       examsFile>>

(* writeJsonAtomic: the temporary file, whose name no other call uses, is
   written *)
WriteFile ==
    \E r \in DOMAIN requests :
        /\ pc = "store"
        /\ requests[r].stage = "writeFile"
        /\ requests' = [requests EXCEPT ![r].stage = "rename"]
        /\ UNCHANGED <<parser, localStorage, dbExams, saveTask, fallbacks,
                       examsFile>>

(* writeJsonAtomic: the temporary file replaces exams.json and the call
   resolves *)
Rename ==
    \E r \in DOMAIN requests :
        /\ pc = "store"
        /\ requests[r].stage = "rename"
        /\ examsFile' = requests[r].data
        /\ requests' = [requests EXCEPT ![r].stage = "resolved"]
        /\ UNCHANGED <<parser, localStorage, dbExams, saveTask, fallbacks>>

StoreNext ==
    \/ LoadAll
    \/ UpsertLoadAll
    \/ WriteFile
    \/ Rename

StoreSpec == StoreInit /\ [][StoreNext]_vars

(***************************************************************************)
(* Properties of parsePdf                                                  *)
(***************************************************************************)
(* the positions in the log of the runs of `ev` *)
RunsOf(ev) == {k \in 1..Len(log) : log[k].ev = ev}
(* the runs of a detector that found a token *)
Found(ev) == {k \in RunsOf(ev) : log[k].out # <<>>}
(* the OCR block has been entered: the engine is being set up or a page has
   been fetched for it *)
OcrStarted ==
    \/ pc \in {"ocrInit", "ocrPage", "ocrEnd"}
    \/ ocrFetched > 0
    \/ worker # "none"
(* the places where the OCR collaborator fails *)
OcrSites == {"ocrLoad", "ocrInit", "ocrPage", "recognize"}
(* the places whose exception nothing but the outermost try encloses *)
TopLevelSites == {"load", "textRead"}

(* C1: when the line-based stage finds nothing, the flat-text stage runs
   next and, when it finds nothing either, the layout fallback after it;
   the OCR engine is loaded only as the fourth step, after the three of
   them, and no page is fetched for OCR and no worker made before that. *)
C1_FallbacksBeforeOcr ==
    /\ \A k \in RunsOf("ocrLoad") :
          /\ k = 4
          /\ log[1] = Ran("lines", <<>>)
          /\ log[2].ev = "text2"
          /\ log[3].ev = "layout"
    /\ OcrStarted => RunsOf("ocrLoad") # {}
    /\ (Len(log) >= 2 /\ log[1] = Ran("lines", <<>>)) => log[2].ev = "text2"
    /\ (Len(log) >= 3 /\ log[1].out = <<>> /\ log[2].out = <<>>)
          => log[3].ev = "layout"

(* a page has been recognized after the three text stages found nothing *)
C1_Witness ==
    /\ pc = "ocrPage"
    /\ ocrRecognized > 0
    /\ RunsOf("ocrLoad") = {4}
    /\ log[2] = Ran("text2", <<>>)

(* C2: every stage that ran before another one found nothing, and the
   questions of the ordinary result are those of the last stage that ran. *)
C2_LaterStageOnlyAfterEmpty ==
    /\ \A k \in 1..(Len(log) - 1) : log[k].out = <<>>
    /\ (pc = "done" /\ result.kind = "ok")
          => /\ Len(log) > 0
             /\ result.questions = log[Len(log)].out

(* the layout fallback found the tokens that are returned *)
C2_Witness ==
    /\ pc = "done"
    /\ Len(log) = 3
    /\ Found("layout") = {3}
    /\ result.questions = log[3].out

(* C3: in quick mode every page that adds OCR text is followed by a run of
   the detector in the same step, and once such a run has found a token no
   page is fetched or recognized any more. *)
C3_QuickStopsAtFirstTokens ==
    [][~deepOcr =>
          /\ ocrParts' # ocrParts
                => /\ Len(log') = Len(log) + 1
                   /\ log'[Len(log')] = Ran("ocrPage", questionsDetected')
          /\ Found("ocrPage") # {}
                => /\ ocrFetched' = ocrFetched
                   /\ ocrRecognized' = ocrRecognized
                   /\ ocrParts' = ocrParts]_vars

(* the quick loop has stopped at its second text, with pages left *)
C3_Witness ==
    /\ ~deepOcr
    /\ pc = "ocrEnd"
    /\ Len(ocrParts) = 2
    /\ Found("ocrPage") = {Len(log)}
    /\ i <= ocrPages

(* C4: the pages fetched for OCR and the pages passed to recognize are at
   most 20 in quick mode, at most 100 in deep mode, and at most the pages
   of the document. *)
C4_OcrPageLimit ==
    /\ ocrRecognized <= ocrFetched
    /\ ocrFetched <= numPages
    /\ ~deepOcr => ocrFetched <= QuickOcrPages
    /\ deepOcr => ocrFetched <= DeepOcrPages

(* a deep parse has recognized its hundredth page of a longer document *)
C4_Witness ==
    /\ deepOcr
    /\ numPages > DeepOcrPages
    /\ ocrRecognized = DeepOcrPages

(* C5 as stated: a deep parse that got OCR text, and in which nothing
   threw, ran the detector over it exactly once, after the loop. *)
C5_DeepDetectsExactlyOnce ==
    (deepOcr /\ pc = "done" /\ Len(ocrParts) > 0 /\ failed = {})
        => /\ RunsOf("ocrPage") = {}
           /\ Cardinality(RunsOf("ocrEnd") \cup RunsOf("final")) = 1

(* C5: in deep mode no detection runs inside the OCR loop; after the loop
   the detector runs once over the accumulated text unless an exception
   ended the loop, and the final fallback runs it once more exactly when
   no token has been found by then. *)
C5_DeepDetectsAfterLoop ==
    deepOcr =>
        /\ RunsOf("ocrPage") = {}
        /\ pc = "ocrPage" => RunsOf("ocrEnd") \cup RunsOf("final") = {}
        /\ (pc = "done" /\ Len(ocrParts) > 0)
              => /\ Cardinality(RunsOf("ocrEnd")) =
                        IF "ocrPage" \in failed THEN 0 ELSE 1
                 /\ Cardinality(RunsOf("final")) =
                        IF Found("ocrEnd") = {} THEN 1 ELSE 0

(* a deep parse found its tokens in the one run after two pages of text *)
C5_Witness ==
    /\ deepOcr
    /\ pc = "done"
    /\ Len(ocrParts) = 2
    /\ Found("ocrEnd") = {Len(log)}

(* C6 as stated: whatever threw, the result is the one of the top-level
   catch. *)
C6_EveryExceptionReachesTopLevel ==
    (pc = "done" /\ failed \ {"ocrLoad"} # {})
        => /\ result.kind = "error"
           /\ result.questions = <<>>

(* C6: parsePdf resolves in every case; the result is the one of the
   top-level catch, without questions and with the error text, exactly
   when loading or a text-layer read threw; an exception of the layout
   fallback or of the OCR block ends in the ordinary result. *)
C6_NeverRejects ==
    pc = "done" =>
        /\ result.kind \in {"ok", "error"}
        /\ result.kind = "error" <=> failed \cap TopLevelSites # {}
        /\ result.kind = "error"
              => /\ result.questions = <<>>
                 /\ error # ""
                 /\ result.extractedText =
                        <<"Failed to extract text: " \o error>>

(* loading the document threw and parsePdf returned the error result *)
C6_Witness ==
    /\ pc = "done"
    /\ failed = {"load"}
    /\ result.kind = "error"

(* C7: a text-layer read that throws costs only its page: when the pages
   read before it carry tokens, parsePdf returns the ordinary result and
   it has questions. *)
C7_FailedPageIsSkipped ==
    (/\ pc = "done"
     /\ "textRead" \in failed
     /\ Len(extractQuestionsFromText2(fullText)) > 0)
        => /\ result.kind = "ok"
           /\ Len(result.questions) > 0

(* C8: after a failure of the OCR collaborator (no engine, a failed
   initialization, a page that cannot be fetched or rendered, a failed
   recognize) parsePdf returns the ordinary result, whose text is the text
   layer with the OCR text recognized so far. *)
C8_OcrFailureNotFatal ==
    (pc = "done" /\ failed \cap OcrSites # {})
        => /\ result.kind = "ok"
           /\ result.extractedText =
                  IF Len(ocrParts) = 0 THEN fullText
                  ELSE Trim(fullText \o JoinParts(ocrParts))

(* a deep parse lost a page after one page of text and still returns the
   token of that text *)
C8_Witness ==
    /\ pc = "done"
    /\ "ocrPage" \in failed
    /\ Len(ocrParts) = 1
    /\ result.kind = "ok"
    /\ Len(result.questions) > 0

(* C9: when no run of a detector found a token, on the ordinary path or on
   the path through the top-level catch, the questions returned are empty. *)
C9_NoInventedQuestions ==
    (pc = "done" /\ \A k \in 1..Len(log) : log[k].out = <<>>)
        => result.questions = <<>>

(* every stage ran, OCR text included, and nothing was found *)
C9_Witness ==
    /\ pc = "done"
    /\ result.kind = "ok"
    /\ Len(ocrParts) > 0
    /\ RunsOf("final") # {}
    /\ result.questions = <<>>

(* C10: no two questions of a result have the same number. *)
C10_NoDuplicateNumbers ==
    pc = "done" =>
        \A a \in 1..Len(result.questions), b \in 1..Len(result.questions) :
            a # b => result.questions[a].number # result.questions[b].number

(* a result with several questions *)
C10_Witness ==
    /\ pc = "done"
    /\ Len(result.questions) >= 2

(* ---- header and footer lines ---- *)
(* the pages of the text layer that show `text` among their first TOP_K lines *)
PagesWithOnTop(text) ==
    {p \in Range(PagesOf(structuredLines)) :
        TopOnPage(LinesOfPage(structuredLines, p), text) > 0}
(* `text` is on at least 60% of the pages, and among the first TOP_K lines
   wherever it occurs *)
CommonTopLine(text) ==
    /\ 10 * Cardinality(PagesWithOnTop(text)) >= 6 * maxPages
    /\ \A p \in Range(PagesOf(structuredLines)) :
          \A k \in 1..Len(LinesOfPage(structuredLines, p)) :
              LinesOfPage(structuredLines, p)[k].text = text => k <= TOP_K

(* C13: lines that are identical on at least 60% of the pages, among the
   top-3 lines of their pages, produce no token in the result of parsePdf:
   a document whose text layer has only such lines, and that was not
   recognized by OCR, has no questions; for every page count *)
C13_CommonTopLinesGiveNoToken ==
    ( /\ pc = "done"
      /\ result.kind = "ok"
      /\ ocrParts = <<>>
      /\ \A k \in 1..Len(structuredLines) :
            CommonTopLine(structuredLines[k].text) )
    => result.questions = <<>>

(* ---- course metadata and the debug trace of the outcome ---- *)
(* C19: when parsePdf can detect no course name (respectively no course
   code) from the text or the file name, its outcome carries no courseName
   (respectively no courseCode) *)
C19_UndetectedCourseStaysAbsent ==
    pc = "done" =>
        /\ CourseName(textForParsing, fileName) = "" => result.courseName = ""
        /\ CourseCode(textForParsing, fileName) = "" => result.courseCode = ""

(* C20: in a production build (MODE or NODE_ENV is 'production') no outcome
   of parsePdf, ordinary or from the top-level catch, carries __debug *)
C20_NoDebugInProduction ==
    ( /\ pc = "done"
      /\ env.MODE = "production" \/ env.NODE_ENV = "production" )
    => ~result.debug
(* an ordinary outcome with questions in a build that only NODE_ENV marks as
   production *)
C20_Witness ==
    /\ pc = "done"
    /\ result.kind = "ok"
    /\ Len(result.questions) > 0
    /\ env = [MODE |-> "development", NODE_ENV |-> "production"]
    /\ ~result.debug

(***************************************************************************)
(* The detectors and the header/footer filter on their own                 *)
(***************************************************************************)
(* the tokens the layout-aware detector returned *)
Tokens == returned.value

(* C11: the tokens detectQuestionsFromPages returns are in document order,
   page ascending, then y descending, then x ascending, in whatever order
   the pages were handed over and the tokens pushed *)
C11_TokensInDocumentOrder ==
    Returned("detectQuestionsFromPages") =>
        \A a, b \in 1..Len(Tokens) :
            a < b =>
                \/ Tokens[a].page < Tokens[b].page
                \/ Tokens[a].page = Tokens[b].page /\ Tokens[a].y > Tokens[b].y
                \/ /\ Tokens[a].page = Tokens[b].page
                   /\ Tokens[a].y = Tokens[b].y
                   /\ Tokens[a].x <= Tokens[b].x
(* the later page was handed over first and both pages gave tokens *)
C11_Witness ==
    /\ Returned("detectQuestionsFromPages")
    /\ Len(call.pages) = 2
    /\ call.pages[1].page > call.pages[2].page
    /\ \E a, b \in 1..Len(Tokens) : Tokens[a].page < Tokens[b].page

(* C12: every 'sub' token of a result of detectQuestionsFromPages has a
   parent that is the token of a 'main' token of the same result *)
C12_SubParentIsMain ==
    Returned("detectQuestionsFromPages") =>
        \A a \in 1..Len(Tokens) :
            Tokens[a].kind = "sub" =>
                \E b \in 1..Len(Tokens) :
                    Tokens[b].kind = "main" /\ Tokens[b].token = Tokens[a].parent

(* ---- filterHeaderFooterLines ---- *)
(* the first three and the last three places of a page *)
Bands(arr) == {k \in 1..Len(arr) : k <= 3 \/ k > Len(arr) - 3}
(* a page without the lines at the places S *)
Without(arr, S) ==
    Let(SelectSeq([k \in 1..Len(arr) |-> k], LAMBDA k : k \notin S),
        LAMBDA left : [j \in 1..Len(left) |-> arr[left[j]]])

(* C14: filterHeaderFooterLines removes only lines among the first 3 or the
   last 3 lines of their page: of every page the result holds the lines of
   the input page in their order, less some lines of the two bands, and so
   every line outside the bands *)
C14_RemovesOnlyInBands ==
    Returned("filterHeaderFooterLines") =>
        \A p \in Range(PagesOf(call.lines)) :
            \E S \in SUBSET Bands(LinesOfPage(call.lines, p)) :
                LinesOfPage(returned.value, p)
                    = Without(LinesOfPage(call.lines, p), S)
(* the first line of page 1 was removed as a common header, and the same
   text stands, and stays, outside the bands of that page *)
C14_Witness ==
    /\ Returned("filterHeaderFooterLines")
    /\ call.lines[1].text # call.lines[2].text
    /\ call.lines[4].text = call.lines[1].text
    /\ Len(returned.value) > 0
    /\ returned.value[1].text = call.lines[2].text
    /\ \E k \in 1..Len(returned.value) :
          returned.value[k] = call.lines[4]

(* ---- point totals, page indicators and dates ---- *)
NoHeadingTexts == {"20p", "Sida 3 av 10", "2024-05-21"}
(* the main numbers of the questions qs: the n of every token n or nL *)
MainsOf(qs) ==
    {n \in 1..99 :
        \E k \in 1..Len(qs) :
            \E L \in {""} \cup Range(Alphabet) : qs[k].number = Tok(n, L)}
(* the lines (items) of the layout detector's pages that came to be the
   place of a main token *)
MainPlaces == {<<Tokens[k].page, Tokens[k].y>> : k \in {j \in 1..Len(Tokens) : Tokens[j].kind = "main"}}

(* C15: a line that reads exactly "20p", "Sida 3 av 10" or "2024-05-21"
   creates no main token in any detector, whatever was accepted before it:
   the layout-aware detector puts no main token at the place of such a line,
   and extractQuestionsFromLines and extractQuestionsFromText2 find no main
   number that they do not find without these lines *)
C15_NoMainFromPointsPageDate ==
    /\ Returned("detectQuestionsFromPages") =>
          \A p \in 1..Len(call.pages) :
              \A k \in 1..Len(call.pages[p].items) :
                  call.pages[p].items[k].str \in NoHeadingTexts =>
                      <<call.pages[p].page, call.pages[p].items[k].y>>
                          \notin MainPlaces
    /\ Returned("extractQuestionsFromLines") =>
          MainsOf(returned.value) \subseteq
              MainsOf(extractQuestionsFromLines(
                  SelectSeq(call.lines, LAMBDA l : l.text \notin NoHeadingTexts)))
    /\ Returned("extractQuestionsFromText2") =>
          MainsOf(returned.value) \subseteq
              MainsOf(extractQuestionsFromText2(
                  SelectSeq(call.text, LAMBDA l : l \notin NoHeadingTexts)))

(* C16: for one page with the lines "1. Introduction", "2a) derive..." and
   "2b) prove...", detectQuestionsFromPages returns exactly the tokens "1",
   "2a" and "2b", the last two as sub-tokens of parent "2" *)
C16_InlineSubQuestions ==
    ( /\ Returned("detectQuestionsFromPages")
      /\ Len(call.pages) = 1
      /\ [k \in 1..Len(call.pages[1].items) |-> call.pages[1].items[k].str]
            = <<"1. Introduction", "2a) derive...", "2b) prove...">> )
    => /\ [k \in 1..Len(Tokens) |-> Tokens[k].token] = <<"1", "2a", "2b">>
       /\ \A k \in 2..3 : Tokens[k].kind = "sub" /\ Tokens[k].parent = "2"

(* ---- extractQuestionsFromLines ---- *)
(* the texts of the lines handed to extractQuestionsFromLines *)
TextsOfCall == [k \in 1..Len(call.lines) |-> call.lines[k].text]
(* a line with no main number, no sub-letter, no number-letter form and no
   range of sub-letters ("a-c ... vardera") *)
NoHeadingLine(text) ==
    /\ LineRe(text).main = 0
    /\ LineRe(text).letter = ""
    /\ LineRe(text).comb = <<>>
    /\ LineRe(text).seg.each = <<>>
(* number and points of the questions returned *)
NumbersAndPoints ==
    [k \in 1..Len(returned.value) |->
        <<returned.value[k].number, returned.value[k].points>>]

(* C17: when the only heading line of the text is "Uppgift 4 (3+2+1)p" and
   no line gives main 4 a sub-letter, extractQuestionsFromLines returns the
   tokens "4a", "4b", "4c" with the points 3, 2 and 1 *)
C17_GroupDistribution ==
    ( /\ Returned("extractQuestionsFromLines")
      /\ \E k \in 1..Len(TextsOfCall) :
            /\ TextsOfCall[k] = "Uppgift 4 (3+2+1)p"
            /\ \A j \in 1..Len(TextsOfCall) :
                  j # k => NoHeadingLine(TextsOfCall[j]) )
    => NumbersAndPoints = << <<"4a", 3>>, <<"4b", 2>>, <<"4c", 1>> >>
(* the heading stands between two other lines, the second one a point total *)
C17_Witness ==
    /\ Returned("extractQuestionsFromLines")
    /\ TextsOfCall = <<"Tentamen i Algebra", "Uppgift 4 (3+2+1)p", "20p">>
    /\ NumbersAndPoints = << <<"4a", 3>>, <<"4b", 2>>, <<"4c", 1>> >>

(* the token "3" is returned with 5 points *)
ThreeWithFivePoints ==
    \E k \in 1..Len(NumbersAndPoints) : NumbersAndPoints[k] = <<"3", 5>>
(* the line names main 3: as its main number or in a number-letter form *)
NamesThree(text) ==
    \/ LineRe(text).main = 3
    \/ \E h \in 1..Len(LineRe(text).comb) : LineRe(text).comb[h].n = 3

(* C18 as stated: for a text containing the line "Uppgift 3 (5p)",
   extractQuestionsFromLines returns the token "3" with 5 points *)
C18_PointsOfMain ==
    ( /\ Returned("extractQuestionsFromLines")
      /\ \E k \in 1..Len(TextsOfCall) : TextsOfCall[k] = "Uppgift 3 (5p)" )
    => ThreeWithFivePoints
(* C18 amended: when "Uppgift 3 (5p)" is the first line of the text that
   names main 3 and the result holds no sub-token of main 3,
   extractQuestionsFromLines returns the token "3" with 5 points *)
C18_PointsOfBareMain ==
    ( /\ Returned("extractQuestionsFromLines")
      /\ \E k \in 1..Len(TextsOfCall) :
            /\ TextsOfCall[k] = "Uppgift 3 (5p)"
            /\ \A j \in 1..(k - 1) : ~NamesThree(TextsOfCall[j])
      /\ \A k \in 1..Len(returned.value) :
            \A L \in Range(Alphabet) : returned.value[k].number # Tok(3, L) )
    => ThreeWithFivePoints
(* the line is followed by a second points line for main 3, and the first
   points stay *)
C18_Witness ==
    /\ Returned("extractQuestionsFromLines")
    /\ TextsOfCall = <<"Tentamen i Algebra", "Uppgift 3 (5p)", "Uppgift 3 (7p)">>
    /\ ThreeWithFivePoints
(***************************************************************************)
(* Duplicates, the token cap, point markers, first points, emit order      *)
(***************************************************************************)
(* the strings of the only page of a call of the layout-aware detector *)
StrsOfCall ==
    [k \in 1..Len(call.pages[1].items) |-> call.pages[1].items[k].str]

(* C21: in detectQuestionsFromPages with the default configuration a
   repeated occurrence of a token key creates no second token and is
   recorded as one more entry of the existing token's positions: a page of
   n >= 2 lines "1. Introduction" gives the one token "1" with n - 1
   positions *)
C21_RepeatIsPositionEvidence ==
    ( /\ Returned("detectQuestionsFromPages")
      /\ Len(call.pages) = 1
      /\ Len(StrsOfCall) >= 2
      /\ \A k \in 1..Len(StrsOfCall) : StrsOfCall[k] = "1. Introduction" )
    => /\ Len(Tokens) = 1
       /\ Tokens[1].token = "1"
       /\ Len(Tokens[1].positions) = Len(StrsOfCall) - 1

(* C22: no detector returns more than 150 tokens: the results of
   extractQuestionsFromLines, extractQuestionsFromText2 and
   detectQuestionsFromPages have length at most 150 *)
C22_AtMost150Tokens ==
    ( /\ returned.done
      /\ call.fn \in {"extractQuestionsFromLines", "extractQuestionsFromText2",
                      "detectQuestionsFromPages"} )
    => Len(returned.value) <= MaxTokens

(* C23: in extractQuestionsFromLines and extractQuestionsFromText2 a number
   that is immediately followed by a point-unit marker, as the "5p)" of
   "(5p)", is a point total and gives no token: no returned number is such a
   number with the marker's letter *)
C23_PointTotalIsNoToken ==
    ( /\ returned.done
      /\ call.fn \in {"extractQuestionsFromLines", "extractQuestionsFromText2"} )
    => \A k \in 1..Len(returned.value), n \in 1..99 :
            returned.value[k].number # Tok(n, "p")

(* the maps of extractQuestionsFromLines after its first k lines *)
LinesAfter(lines, k) ==
    LET f[j \in 0..k] ==
            IF j = 0 THEN NoTokens ELSE LineStep(f[j - 1], lines, j)
    IN  f[k]
(* the maps of extractQuestionsFromText2 after the pass over the
   number-letter forms (k = 0), after line k of the pass over the lines, and
   after the pass that binds letters by proximity (k = Len(text) + 1) *)
Text2After(text, k) ==
    LET f[j \in 0..k] ==
            IF j = 0 THEN CombinedPass(NoTokens, Normalized(text))
            ELSE IF j <= Len(text) THEN Text2LineStep(f[j - 1], text, j)
            ELSE GlobalPass(f[j - 1], Normalized(text))
    IN  f[k]
(* every token that has points in a has the same points in b *)
PointsKept(a, b) ==
    \A t \in DOMAIN a.pointsByToken :
        t \in DOMAIN b.pointsByToken
        /\ b.pointsByToken[t] = a.pointsByToken[t]
(* the points returned are those of the maps, 0 for a token without any *)
PointsFrom(st) ==
    \A j \in 1..Len(returned.value) :
        returned.value[j].points
            = GetOr(st.pointsByToken, returned.value[j].number, 0)

(* C24: in extractQuestionsFromLines and extractQuestionsFromText2 the
   points recorded for a token key are changed by no later line or pass, and
   the result carries them: the value of the first match in scan order *)
C24_FirstPointsStay ==
    /\ Returned("extractQuestionsFromLines") =>
        /\ \A k \in 1..Len(call.lines) :
               PointsKept(LinesAfter(call.lines, k - 1),
                          LinesAfter(call.lines, k))
        /\ PointsFrom(LinesAfter(call.lines, Len(call.lines)))
    /\ Returned("extractQuestionsFromText2") =>
        /\ \A k \in 1..(Len(call.text) + 1) :
               PointsKept(Text2After(call.text, k - 1),
                          Text2After(call.text, k))
        /\ PointsFrom(Text2After(call.text, Len(call.text) + 1))
(* main 3 is named with 7 points and then with 5: the result has the 7 *)
C24_Witness ==
    /\ Returned("extractQuestionsFromText2")
    /\ call.text = <<"Uppgift 3 (7p)", "Uppgift 3 (5p)">>
    /\ \E j \in 1..Len(returned.value) :
          returned.value[j].number = "3" /\ returned.value[j].points = 7

(* the token numbers of the questions returned *)
NumbersReturned == [j \in 1..Len(returned.value) |-> returned.value[j].number]
(* a is an initial part of b *)
IsPrefix(a, b) == Len(a) <= Len(b) /\ SubSeq(b, 1, Len(a)) = a
(* the walk over all of mainOrder: per main its sub-tokens in recorded order,
   or the bare main when it has no sub-letter *)
FullWalk(st) ==
    LET f[k \in 0..Len(st.mainOrder)] ==
            IF k = 0 THEN <<>>
            ELSE Let(st.mainOrder[k], LAMBDA n :
                 f[k - 1] \o (IF st.subOrder[n] = <<>> THEN <<ToString(n)>>
                              ELSE [j \in 1..Len(st.subOrder[n]) |->
                                       ToString(n) \o st.subOrder[n][j]]))
    IN  f[Len(st.mainOrder)]

(* C25: the tokens extractQuestionsFromLines returns are the walk over the
   mains in first-seen order (a main is appended to the order by the line
   that first names it and the order is never rearranged), each main giving
   its sub-tokens in recorded order or, without any sub-letter, only its
   bare token; the walk is complete unless it stopped at MaxTokens, and a
   main with a sub-letter is never returned bare *)
C25_EmitWalksMainOrder ==
    Returned("extractQuestionsFromLines") =>
        Let(LinesAfter(call.lines, Len(call.lines)), LAMBDA st :
            /\ \A k \in 1..Len(call.lines) :
                   /\ IsPrefix(LinesAfter(call.lines, k - 1).mainOrder,
                               LinesAfter(call.lines, k).mainOrder)
                   /\ LineRe(call.lines[k].text).main # 0 =>
                          LineRe(call.lines[k].text).main
                              \in Range(LinesAfter(call.lines, k).mainOrder)
            /\ \A p, q \in 1..Len(st.mainOrder) :
                   st.mainOrder[p] = st.mainOrder[q] => p = q
            /\ IsPrefix(NumbersReturned, FullWalk(st))
            /\ NumbersReturned = FullWalk(st)
               \/ Len(NumbersReturned) >= MaxTokens
            /\ \A k \in 1..Len(st.mainOrder) :
                   st.subOrder[st.mainOrder[k]] # <<>> =>
                       ToString(st.mainOrder[k]) \notin Range(NumbersReturned))
(* main 4 has three sub-letters, main 2 has none: main 4 is returned only
   as its sub-tokens and "2" bare, in the order the mains were seen *)
C25_Witness ==
    /\ Returned("extractQuestionsFromLines")
    /\ TextsOfCall = <<"Uppgift 4 (3+2+1)p", "a)", "Uppgift 2">>
    /\ NumbersReturned = <<"4a", "4b", "4c", "2">>

(* the lines of the one page of the call that were accepted as a main
   heading above line k: when the lines name pairwise different mains, an
   accepted line is one at whose height a main token was created *)
AcceptedAbove(k) ==
    {j \in 1..(k - 1) :
        \E t \in Range(returned.value) :
            t.kind = "main" /\ t.y = call.pages[1].items[j].y}
MainAtLine(j) ==
    CHOOSE n \in 1..99 :
        \E t \in Range(returned.value) :
            /\ t.kind = "main" /\ t.y = call.pages[1].items[j].y
            /\ t.token = ToString(n)
DistinctMains ==
    \A j, k \in 1..Len(StrsOfCall) :
        /\ HeadRe(StrsOfCall[j]).main # 0
        /\ HeadRe(StrsOfCall[j]).main = HeadRe(StrsOfCall[k]).main
        => j = k
IsSubOnlyLine(text) ==
    /\ HeadRe(text).main = 0
    /\ HeadRe(text).icMain = 0
    /\ HeadRe(text).sub # ""

(* C26: in detectQuestionsFromPages a letter-only line gives the sub token
   of the main accepted last before it, whatever the numbers of the mains
   accepted earlier, and gives no token when no main was accepted before
   it *)
C26_LetterBindsToLastAccepted ==
    /\ Returned("detectQuestionsFromPages")
    /\ Len(call.pages) = 1
    /\ DistinctMains
    => \A k \in 1..Len(StrsOfCall) :
          IsSubOnlyLine(StrsOfCall[k]) =>
              IF AcceptedAbove(k) = {}
              THEN \A t \in Range(returned.value) :
                      t.y # call.pages[1].items[k].y
              ELSE Let(MainAtLine(MaxOf(AcceptedAbove(k))), LAMBDA n :
                   \E t \in Range(returned.value) :
                      /\ t.token = Tok(n, HeadRe(StrsOfCall[k]).sub)
                      /\ t.kind = "sub"
                      /\ t.parent = ToString(n))

(* the call of either buildLinesFromItems has returned *)
BuiltLines ==
    /\ call.fn \in {"buildLinesFromItems",
                    "questionDetector.buildLinesFromItems"}
    /\ returned.done
(* the runs of the call as spans, the empty strings included *)
RunsOfCall ==
    [k \in 1..Len(call.items) |->
        [text |-> call.items[k].str, x |-> call.items[k].x,
         y |-> call.items[k].y]]
(* the raw lines of the call, and those of them that give an output line *)
RawOfCall ==
    RawLines(Sorted(Spans(call.items), SpanBefore),
             IF call.fn = "buildLinesFromItems" THEN yTol ELSE yTolerancePx)
GapOfCall ==
    IF call.fn = "buildLinesFromItems" THEN gapX ELSE gapXThresholdPx
TextOfRaw(rawLine) ==
    Clean(Composed(Sorted(rawLine.parts, LAMBDA a, b : a.x < b.x), GapOfCall))
KeptRaw == SelectSeq(RawOfCall, LAMBDA l : TextOfRaw(l) # "")
(* how many times span sp is a part of the raw lines in raw, and how many
   times it is among the spans in s *)
TimesIn(sp, raw) ==
    SumOver([k \in 1..Len(raw) |->
                Cardinality({j \in 1..Len(raw[k].parts) :
                                raw[k].parts[j] = sp})], 1..Len(raw))
TimesAmong(sp, s) == Cardinality({k \in 1..Len(s) : s[k] = sp})
(* the output lines are the kept raw lines, in order *)
LinesAreKeptRaw ==
    /\ Len(returned.value) = Len(KeptRaw)
    /\ \A k \in 1..Len(KeptRaw) : returned.value[k].text = TextOfRaw(KeptRaw[k])

(* C27 as stated: every run given to buildLinesFromItems is a part of
   exactly one output line, and there are at most as many lines as runs *)
C27_EveryRunInOneLine ==
    BuiltLines =>
        /\ LinesAreKeptRaw
        /\ \A k \in 1..Len(RunsOfCall) :
               TimesIn(RunsOfCall[k], KeptRaw)
                   = TimesAmong(RunsOfCall[k], RunsOfCall)
        /\ Len(returned.value) <= Len(call.items)
(* C27, amended: every run with a non-empty string is a part of exactly one
   raw line; every raw line with a character that is not white space gives
   one output line, so a run with such a character is a part of exactly one
   output line, while a run with an empty string and the runs of a line
   that is all white space are part of none; there are at most as many
   lines as runs *)
C27_EveryTextRunInOneLine ==
    BuiltLines =>
        /\ LinesAreKeptRaw
        /\ \A k \in 1..Len(RunsOfCall) :
               /\ RunsOfCall[k].text # "" =>
                      TimesIn(RunsOfCall[k], RawOfCall)
                          = TimesAmong(RunsOfCall[k], RunsOfCall)
               /\ Clean(RunsOfCall[k].text) # "" =>
                      TimesIn(RunsOfCall[k], KeptRaw)
                          = TimesAmong(RunsOfCall[k], RunsOfCall)
               /\ RunsOfCall[k].text = "" =>
                      TimesIn(RunsOfCall[k], RawOfCall) = 0
        /\ \A k \in 1..Len(RawOfCall) :
               (\A j \in 1..Len(RawOfCall[k].parts) :
                    Clean(RawOfCall[k].parts[j].text) = "")
               => TimesIn(RawOfCall[k].parts[1], KeptRaw) = 0
        /\ Len(returned.value) <= Len(call.items)
(* two text runs on one line, a blank run alone on the line below and an
   empty run: one output line *)
C27_Witness ==
    /\ BuiltLines
    /\ call.items = <<Item("Uppgift 2", 50, 700, FALSE),
                      Item("Uppgift 2", 120, 701, FALSE),
                      Item(" ", 50, 640, FALSE)>>
    /\ Len(returned.value) = 1
    /\ returned.value[1].text = "Uppgift 2 Uppgift 2"

(* C28: when parsePdf has returned, no OCR worker it created is still live
   and no canvas of the OCR loop still holds its bitmap, whichever step of
   the OCR block threw *)
C28_OcrResourcesReleased ==
    pc = "done" => worker # "live" /\ ~canvasOpen

(* C29: a call of saveExams or saveExamsAsync falls back from IndexedDB to
   localStorage at most once: the saveExams of the fallback starts no
   IndexedDB save that falls back again *)
C29_AtMostOneFallback == pc = "save" => fallbacks <= 1

(* C30: an item whose create or update has resolved is among the items
   list() reads from now on, unless a remove of its id was issued *)
C30_NoCompletedWriteLost ==
    pc = "store" =>
        \A r \in DOMAIN requests :
            /\ requests[r].op \in {"create", "update"}
            /\ requests[r].stage = "resolved"
            /\ ~\E o \in DOMAIN requests :
                  requests[o].op = "remove" /\ requests[o].id = requests[r].id
            => \E k \in 1..Len(examsFile) :
                  examsFile[k] = ItemOf(requests[r].id, r)
====
